---- MODULE Spec2Model ----
(***************************************************************************)
(* zModel mesh operator kernel and sculpt engine.                          *)
(*                                                                         *)
(* Numbers.  The program computes in IEEE floats stored in Float32Array    *)
(* buffers.  The model computes in integers: a position coordinate is an   *)
(* integer number of grid units, a normal component is an integer number   *)
(* of 1/NormalScale, a uv component an integer number of 1/UvScale, and    *)
(* every division rounds toward zero (Quot).  Index buffers are            *)
(* Uint16Array: a value stored in one goes through ToUint16.               *)
(*                                                                         *)
(* Buffers are the program's flat arrays, as TLA+ sequences; the program's *)
(* index i is position i + 1 of the sequence (At, Vec).                    *)
(***************************************************************************)
EXTENDS Integers, Sequences, FiniteSets, TLC

(***************************************************************************)
(* Bounds of the model.                                                    *)
(***************************************************************************)
NormalScale == 10      \* a unit normal has length NormalScale
UvScale == 4           \* uv 1.0 is UvScale
MaxCuts == 2           \* loopCut numberOfCuts in 0..MaxCuts
MaxCount == 2          \* array count in 0..MaxCount
MaxIterations == 2     \* subdivide iterations in 0..MaxIterations
MaxSegments == 2       \* bridge segments in 1..MaxSegments
MaxPoints == 3         \* a knife path has at most MaxPoints points
RatioDen == 2          \* decimate ratios are multiples of 1 / RatioDen
MaxSelected == 2       \* a selection names at most MaxSelected faces or edges
MaxCutEdges == 3       \* a loopCut selection names at most MaxCutEdges edges
MaxMoves == 2          \* at most MaxMoves calls that move vertices

(***************************************************************************)
(* JavaScript values that are not numbers.                                 *)
(***************************************************************************)
Undefined == -100000   \* reading an array out of range, Map.get of no key
NaN == -100001         \* arithmetic on undefined

IsNum(x) == x # Undefined /\ x # NaN

Abs(x) == IF x < 0 THEN -x ELSE x
Min(a, b) == IF a < b THEN a ELSE b
Max(a, b) == IF a > b THEN a ELSE b

\* Math.min / Math.max: NaN when an argument is undefined or NaN
MathMin(a, b) == IF IsNum(a) /\ IsNum(b) THEN Min(a, b) ELSE NaN
MathMax(a, b) == IF IsNum(a) /\ IsNum(b) THEN Max(a, b) ELSE NaN

\* float division, rounded toward zero on the model's grid
Quot(a, b) == IF (a >= 0) = (b > 0) THEN Abs(a) \div Abs(b) ELSE -(Abs(a) \div Abs(b))

RECURSIVE SqrtIn(_, _, _)
\* the largest r in lo..hi with r * r <= n
SqrtIn(n, lo, hi) ==
  IF lo >= hi THEN lo
  ELSE LET mid == (lo + hi + 1) \div 2
       IN IF mid <= n \div mid THEN SqrtIn(n, mid, hi) ELSE SqrtIn(n, lo, mid - 1)
\* Math.sqrt, rounded down on the model's grid
Sqrt(n) == SqrtIn(n, 0, n)

\* storing a number into a Uint16Array
ToUint16(x) == IF IsNum(x) THEN x % 65536 ELSE 0

(***************************************************************************)
(* Sequences as 0-based arrays.                                            *)
(***************************************************************************)
At(buf, i) == IF IsNum(i) /\ i >= 0 /\ i < Len(buf) THEN buf[i + 1] ELSE Undefined

Vec(buf, i) == <<At(buf, 3 * i), At(buf, 3 * i + 1), At(buf, 3 * i + 2)>>
Uv(buf, i) == <<At(buf, 2 * i), At(buf, 2 * i + 1)>>

RECURSIVE Flat(_, _, _)
\* F(lo) \o F(lo+1) \o ... \o F(hi): a loop that pushes F(i) at each turn
Flat(F(_), lo, hi) ==
  IF lo > hi THEN <<>>
  ELSE IF lo = hi THEN F(lo)
  ELSE Flat(F, lo, (lo + hi) \div 2) \o Flat(F, (lo + hi) \div 2 + 1, hi)

\* F of the value of v: one statement, then the statements that follow it
Then(v, F(_)) == CHOOSE r \in {F(x) : x \in {v}} : TRUE

Range(s) == {s[i] : i \in 1..Len(s)}
Includes(s, x) == \E i \in 1..Len(s) : s[i] = x

RECURSIVE IndexOfFrom(_, _, _)
IndexOfFrom(s, x, i) ==
  IF i > Len(s) THEN 0 ELSE IF s[i] = x THEN i ELSE IndexOfFrom(s, x, i + 1)
\* position of the first x in s, 0 when absent
IndexOf(s, x) == IndexOfFrom(s, x, 1)

Reverse(s) == [i \in 1..Len(s) |-> s[Len(s) + 1 - i]]

vec3Add(a, b) == <<a[1] + b[1], a[2] + b[2], a[3] + b[3]>>
vec3Sub(a, b) == <<a[1] - b[1], a[2] - b[2], a[3] - b[3]>>
vec3Cross(a, b) ==
  <<a[2] * b[3] - a[3] * b[2], a[3] * b[1] - a[1] * b[3], a[1] * b[2] - a[2] * b[1]>>
vec3LengthSq(v) == v[1] * v[1] + v[2] * v[2] + v[3] * v[3]

\* a vector of length NormalScale along v; the zero vector stays zero.  The
\* length is taken in steps of 1 / NormalScale, and in whole steps for a vector
\* so long that the finer length does not fit the checker's integers
vec3Normalize(v) ==
  LET fine == vec3LengthSq(v) <= 1000000
      len == IF fine THEN Sqrt(vec3LengthSq(v) * NormalScale * NormalScale)
             ELSE Sqrt(vec3LengthSq(v))
      unit == IF fine THEN NormalScale * NormalScale ELSE NormalScale
  IN IF len = 0 THEN <<0, 0, 0>>
     ELSE <<Quot(v[1] * unit, len), Quot(v[2] * unit, len), Quot(v[3] * unit, len)>>

\* a + (b - a) * num / den
Lerp(a, b, num, den) == a + Quot((b - a) * num, den)
vec3Lerp(a, b, num, den) ==
  <<Lerp(a[1], b[1], num, den), Lerp(a[2], b[2], num, den), Lerp(a[3], b[3], num, den)>>

(***************************************************************************)
(* Derived data: the edge list and the face list every operator but        *)
(* extrude rebuilds from its index list before it returns.                 *)
(***************************************************************************)
\* the elements of s in order of first appearance (a Set or Map filled from s)
Dedup(s) ==
  LET first == {k \in 1..Len(s) : \A j \in 1..(k - 1) : s[j] # s[k]}
  IN [n \in 1..Cardinality(first) |->
        s[CHOOSE k \in first : Cardinality({j \in first : j <= k}) = n]]

Triangle(ix, t) == <<At(ix, 3 * t), At(ix, 3 * t + 1), At(ix, 3 * t + 2)>>
TriangleCount(ix) == Len(ix) \div 3

TriEdges(tri) ==
  [j \in 1..3 |-> [a |-> MathMin(tri[j], tri[(j % 3) + 1]),
                   b |-> MathMax(tri[j], tri[(j % 3) + 1])]]

\* one {a, b} with a < b per unordered pair that is a side of a triangle
BuildEdges(ix) ==
  Dedup(Flat(LAMBDA t : TriEdges(Triangle(ix, t)), 0, TriangleCount(ix) - 1))

\* one face per triangle, its normal the vertex normal of its first corner
BuildFaces(ix, normals) ==
  [t \in 1..TriangleCount(ix) |->
     [vertices |-> Triangle(ix, t - 1), normal |-> Vec(normals, Triangle(ix, t - 1)[1])]]

Fields == {"vertices", "normals", "uvs", "indices", "edges", "faces"}

\* the geometry object an operator returns: typed arrays made from its lists
NewGeometry(id, vertices, normals, uvs, indices, edges, faces) ==
  [id |-> id,
   vertices |-> vertices,
   normals |-> normals,
   uvs |-> uvs,
   indices |-> [i \in 1..Len(indices) |-> ToUint16(indices[i])],
   vertexCount |-> Len(vertices) \div 3,
   edges |-> edges,
   faces |-> faces]

\* `return mesh`: the argument itself, every buffer the argument's buffer
ReturnMesh(mesh) ==
  [threw |-> FALSE, geometry |-> mesh.geometry, transform |-> mesh.transform,
   alias |-> Fields]

\* a return that hands the argument's position buffer on to the new geometry
ReturnNewSharingVertices(mesh, geometry) ==
  [threw |-> FALSE, geometry |-> geometry, transform |-> mesh.transform,
   alias |-> {"vertices"}]

\* `return {...mesh, geometry: newGeometry}`: buffers allocated by the call
ReturnNew(mesh, geometry) ==
  [threw |-> FALSE, geometry |-> geometry, transform |-> mesh.transform,
   alias |-> {}]


\* an operator that raises a TypeError returns nothing
Throws(mesh) ==
  [threw |-> TRUE, geometry |-> mesh.geometry, transform |-> mesh.transform,
   alias |-> {}]

(***************************************************************************)
(* Input meshes.                                                           *)
(***************************************************************************)
IdentityTransform ==
  [position |-> <<0, 0, 0>>, rotation |-> <<0, 0, 0>>, scale |-> <<1, 1, 1>>]

\* a mesh whose derived data is that of its index list (spec section 3)
MakeMesh(id, vertices, normals, uvs, indices) ==
  [id |-> id,
   geometry |-> NewGeometry(id, vertices, normals, uvs, indices,
                            BuildEdges(indices), BuildFaces(indices, normals)),
   transform |-> IdentityTransform,
   visible |-> TRUE]

\* createPlane with cells of 4 x 4 grid units: (gridX+1) x (gridY+1) vertices
createPlane(gridX, gridY) ==
  LET width == 4 * gridX
      height == 4 * gridY
      cols == gridX + 1
      vcount == cols * (gridY + 1)
      ixOf(v) == v % cols
      iyOf(v) == v \div cols
      cells == gridX * gridY
      a(c) == (c % gridX) + cols * (c \div gridX)
      b(c) == (c % gridX) + cols * ((c \div gridX) + 1)
  IN MakeMesh(
       "plane",
       Flat(LAMBDA v : <<ixOf(v) * 4 - (width \div 2), 0, iyOf(v) * 4 - (height \div 2)>>,
            0, vcount - 1),
       Flat(LAMBDA v : <<0, NormalScale, 0>>, 0, vcount - 1),
       Flat(LAMBDA v : <<Quot(ixOf(v) * UvScale, gridX),
                         UvScale - Quot(iyOf(v) * UvScale, gridY)>>, 0, vcount - 1),
       Flat(LAMBDA c : <<a(c), b(c), a(c) + 1, b(c), b(c) + 1, a(c) + 1>>, 0, cells - 1))

\* a closed solid of six triangles: apex 0 and nadir 4 on the triangle 1, 2, 3
Bipyramid ==
  MakeMesh(
    "bipyramid",
    <<0, 4, 0,   -2, 0, -2,   2, 0, -2,   0, 0, 2,   0, -4, 0>>,
    <<0, 10, 0,  -7, 0, -7,   7, 0, -7,   0, 0, 10,  0, -10, 0>>,
    <<2, 4,   0, 2,   4, 2,   2, 2,   2, 0>>,
    <<0, 2, 1,   0, 3, 2,   0, 1, 3,   4, 1, 2,   4, 2, 3,   4, 3, 1>>)

\* a flat disc of five triangles around vertex 0
PentagonFan ==
  MakeMesh(
    "fan",
    <<0, 0, 0,   4, 0, 0,   0, 0, 4,   -4, 0, 0,   -2, 0, -4,   2, 0, -4>>,
    <<0, 10, 0,  0, 10, 0,  0, 10, 0,  0, 10, 0,   0, 10, 0,    0, 10, 0>>,
    <<2, 2,   4, 2,   2, 4,   0, 2,   1, 0,   3, 0>>,
    <<0, 2, 1,   0, 3, 2,   0, 4, 3,   0, 5, 4,   0, 1, 5>>)

Meshes == {createPlane(1, 1), createPlane(2, 1), Bipyramid, PentagonFan}

(***************************************************************************)
(* Mirror.                                                                 *)
(***************************************************************************)
mirror(mesh, axisIdx, merge, mergeThreshold, flipNormals) ==
  LET geometry == mesh.geometry
      origVertexCount == geometry.vertexCount
      \* mergeMap: the vertices on the mirror plane
      Merged(i) == merge /\ Abs(At(geometry.vertices, 3 * i + axisIdx)) < mergeThreshold
      vertexMapping(i) ==
        IF i < 0 \/ i >= origVertexCount THEN i
        ELSE IF Merged(i) THEN i
        ELSE origVertexCount + Cardinality({j \in 0..(i - 1) : ~Merged(j)})
      Negate(v, on) == [k \in 1..3 |-> IF on /\ k = axisIdx + 1 THEN -v[k] ELSE v[k]]
      newVertices ==
        geometry.vertices \o
        Flat(LAMBDA i : IF Merged(i) THEN <<>> ELSE Negate(Vec(geometry.vertices, i), TRUE),
             0, origVertexCount - 1)
      newNormals ==
        geometry.normals \o
        Flat(LAMBDA i : IF Merged(i) THEN <<>>
                        ELSE Negate(Vec(geometry.normals, i), flipNormals),
             0, origVertexCount - 1)
      newUvs ==
        geometry.uvs \o
        Flat(LAMBDA i : IF Merged(i) THEN <<>>
                        ELSE <<IF axisIdx = 0 THEN UvScale - At(geometry.uvs, 2 * i)
                                              ELSE At(geometry.uvs, 2 * i),
                               At(geometry.uvs, 2 * i + 1)>>,
             0, origVertexCount - 1)
      \* the mirrored triangles, winding flipped
      newIndices ==
        geometry.indices \o
        Flat(LAMBDA t : LET tri == Triangle(geometry.indices, t)
                        IN <<vertexMapping(tri[1]), vertexMapping(tri[3]),
                             vertexMapping(tri[2])>>,
             0, TriangleCount(geometry.indices) - 1)
  IN ReturnNew(mesh, NewGeometry(geometry.id, newVertices, newNormals, newUvs, newIndices,
                                 BuildEdges(newIndices), BuildFaces(newIndices, newNormals)))

(***************************************************************************)
(* Extrude.                                                                *)
(***************************************************************************)

\* vertexMapping.get(v) ?? v, the clones numbered from base in the order of selectedVertices
CloneOf(selectedVertices, base, v) ==
  IF IndexOf(selectedVertices, v) = 0 THEN v ELSE base + IndexOf(selectedVertices, v) - 1

\* the triangles all of whose corners are corners of the face go to the clones
RemapTriangles(ix, faceVertices, selectedVertices, base) ==
  Flat(LAMBDA t : LET tri == Triangle(ix, t)
                  IN IF \A k \in 1..3 : Includes(faceVertices, tri[k])
                     THEN [k \in 1..3 |-> CloneOf(selectedVertices, base, tri[k])]
                     ELSE tri,
       0, TriangleCount(ix) - 1)

RECURSIVE RemapSelected(_, _, _, _, _, _)
RemapSelected(ix, faces, selectedFaces, n, selectedVertices, base) ==
  IF n > Len(selectedFaces) THEN ix
  ELSE RemapSelected(
         RemapTriangles(ix, faces[selectedFaces[n] + 1].vertices, selectedVertices, base),
         faces, selectedFaces, n + 1, selectedVertices, base)

\* a boundary test that only looks for the side in the same direction
FaceBoundaryEdgesOneWay(faces, selectedFaces, f) ==
  LET verts == faces[f + 1].vertices
      SideOf(vs, i) == <<vs[i], vs[(i % Len(vs)) + 1]>>
      IsShared(a, b) ==
        \E n \in 1..Len(selectedFaces) :
          /\ selectedFaces[n] # f
          /\ LET others == faces[selectedFaces[n] + 1].vertices
             IN \E j \in 1..Len(others) : SideOf(others, j) = <<a, b>>
  IN Flat(LAMBDA i : IF IsShared(SideOf(verts, i)[1], SideOf(verts, i)[2]) THEN <<>>
                     ELSE <<SideOf(verts, i)>>,
          1, Len(verts))

\* the sides (a, b) of face f that no other selected face has, in either direction
FaceBoundaryEdges(faces, selectedFaces, f) ==
  LET verts == faces[f + 1].vertices
      SideOf(vs, i) == <<vs[i], vs[(i % Len(vs)) + 1]>>
      IsShared(a, b) ==
        \E n \in 1..Len(selectedFaces) :
          /\ selectedFaces[n] # f
          /\ LET others == faces[selectedFaces[n] + 1].vertices
             IN \E j \in 1..Len(others) :
                  \/ SideOf(others, j) = <<a, b>>
                  \/ SideOf(others, j) = <<b, a>>
  IN Flat(LAMBDA i : IF IsShared(SideOf(verts, i)[1], SideOf(verts, i)[2]) THEN <<>>
                     ELSE <<SideOf(verts, i)>>,
          1, Len(verts))

\* the edge records extrude adds for the side quads: a-a' and b-b' only
ExtrudeSideEdges(boundaryEdges, selectedVertices, base) ==
  Flat(LAMBDA n : <<[a |-> boundaryEdges[n][1],
                     b |-> CloneOf(selectedVertices, base, boundaryEdges[n][1])],
                    [a |-> boundaryEdges[n][2],
                     b |-> CloneOf(selectedVertices, base, boundaryEdges[n][2])]>>,
       1, Len(boundaryEdges))

\* the face records extrude adds: one quad (a, b, b', a') per boundary edge
ExtrudeSideFaces(boundaryEdges, selectedVertices, base, newVertices) ==
  Flat(LAMBDA n :
         LET a == boundaryEdges[n][1]
             b == boundaryEdges[n][2]
             newA == CloneOf(selectedVertices, base, a)
             newB == CloneOf(selectedVertices, base, b)
             edgeVec == vec3Sub(Vec(newVertices, b), Vec(newVertices, a))
             upVec == vec3Sub(Vec(newVertices, newA), Vec(newVertices, a))
         IN <<[vertices |-> <<a, b, newB, newA>>,
               normal |-> vec3Normalize(vec3Cross(edgeVec, upVec))]>>,
       1, Len(boundaryEdges))

RECURSIVE SumNormals(_, _, _)
SumNormals(faces, faceMap, n) ==
  IF n > Len(faceMap) THEN <<0, 0, 0>>
  ELSE vec3Add(faces[faceMap[n] + 1].normal, SumNormals(faces, faceMap, n + 1))

extrude(mesh, selectedFaces, distance, useNormals) ==
  IF Len(selectedFaces) = 0 THEN ReturnMesh(mesh)
  ELSE
    LET geometry == mesh.geometry
        HasFace(f) == f >= 0 /\ f < Len(geometry.faces)
    IN IF \E n \in 1..Len(selectedFaces) : ~HasFace(selectedFaces[n])
       THEN Throws(mesh)   \* faceMap.get(faceIdx)! is undefined: face.vertices raises
       ELSE
         LET faceMap == Dedup(selectedFaces)
             selectedVertices ==
               Dedup(Flat(LAMBDA n : geometry.faces[selectedFaces[n] + 1].vertices,
                          1, Len(selectedFaces)))
             avgNormal == vec3Normalize(SumNormals(geometry.faces, faceMap, 1))
             oldVertexCount == geometry.vertexCount
             NormalOf(v) == IF useNormals THEN vec3Normalize(Vec(geometry.normals, v))
                            ELSE avgNormal
             newVertices ==
               geometry.vertices \o
               Flat(LAMBDA n :
                      LET v == selectedVertices[n]
                      IN [k \in 1..3 |-> Vec(geometry.vertices, v)[k]
                                         + Quot(NormalOf(v)[k] * distance, NormalScale)],
                    1, Len(selectedVertices))
             newNormals ==
               geometry.normals \o
               Flat(LAMBDA n : NormalOf(selectedVertices[n]), 1, Len(selectedVertices))
             newUvs ==
               geometry.uvs \o
               Flat(LAMBDA n : Uv(geometry.uvs, selectedVertices[n]),
                    1, Len(selectedVertices))
             movedFaces ==
               [f \in 1..Len(geometry.faces) |->
                  IF Includes(selectedFaces, f - 1)
                  THEN [geometry.faces[f] EXCEPT !.vertices =
                          [k \in 1..Len(@) |->
                             CloneOf(selectedVertices, oldVertexCount, @[k])]]
                  ELSE geometry.faces[f]]
             movedIndices ==
               RemapSelected(geometry.indices, geometry.faces, selectedFaces, 1,
                             selectedVertices, oldVertexCount)
             boundaryEdges ==
               Flat(LAMBDA n : FaceBoundaryEdges(geometry.faces, selectedFaces,
                                                 selectedFaces[n]),
                    1, Len(selectedFaces))
             sideIndices ==
               Flat(LAMBDA n :
                      LET a == boundaryEdges[n][1]
                          b == boundaryEdges[n][2]
                          newA == CloneOf(selectedVertices, oldVertexCount, a)
                          newB == CloneOf(selectedVertices, oldVertexCount, b)
                      IN <<a, b, newB, a, newB, newA>>,
                    1, Len(boundaryEdges))
             newIndices == movedIndices \o sideIndices
             newEdges ==
               geometry.edges \o
               ExtrudeSideEdges(boundaryEdges, selectedVertices, oldVertexCount)
             newFaces ==
               movedFaces \o
               ExtrudeSideFaces(boundaryEdges, selectedVertices, oldVertexCount, newVertices)
         IN ReturnNew(mesh, NewGeometry(geometry.id, newVertices, newNormals, newUvs,
                                        newIndices, newEdges, newFaces))

(***************************************************************************)
(* Loop cut.                                                               *)
(***************************************************************************)
EdgeKey(a, b) == <<MathMin(a, b), MathMax(a, b)>>

\* the selected edges stored under a key of edgeVertexMap
EdgeHits(selectedEdges, key) ==
  {n \in 1..Len(selectedEdges) : EdgeKey(selectedEdges[n][1], selectedEdges[n][2]) = key}

\* cut vertices numbered from one past the vertex count
EdgeNewVertsOneOff(selectedEdges, numberOfCuts, base, key) ==
  LET hits == EdgeHits(selectedEdges, key)
      n == CHOOSE m \in hits : \A o \in hits : o <= m
  IN [i \in 1..numberOfCuts |-> base + (n - 1) * numberOfCuts + i]

\* edgeVertexMap.get(key) when the key is present: the cut vertices of the last
\* selected edge with that key, numbered from the vertex count in the order the
\* selected edges are visited
EdgeNewVerts(selectedEdges, numberOfCuts, base, key) ==
  LET hits == EdgeHits(selectedEdges, key)
      n == CHOOSE m \in hits : \A o \in hits : o <= m
  IN [i \in 1..numberOfCuts |-> base + (n - 1) * numberOfCuts + i - 1]

\* the edges of a triangle that are cut, each with its cut vertices
CutEdges(triVerts, selectedEdges, numberOfCuts, base) ==
  Flat(LAMBDA j :
         LET a == triVerts[j]
             b == triVerts[(j % 3) + 1]
             edgeNewVerts == EdgeNewVerts(selectedEdges, numberOfCuts, base, EdgeKey(a, b))
         IN IF EdgeHits(selectedEdges, EdgeKey(a, b)) = {} THEN <<>>
            ELSE <<[edge |-> <<a, b>>,
                    newVerts |-> IF a < b THEN edgeNewVerts ELSE Reverse(edgeNewVerts)]>>,
       1, 3)

\* the triangles that replace a triangle with two cut edges
LoopCutTwo(triVerts, cut1, cut2, numberOfCuts) ==
  LET OnBoth(v) == /\ (v = cut1.edge[1] \/ v = cut1.edge[2])
                   /\ (v = cut2.edge[1] \/ v = cut2.edge[2])
      shared == {k \in 1..3 : OnBoth(triVerts[k])}
  IN IF shared = {} THEN triVerts
     ELSE
       LET sharedIdx == triVerts[CHOOSE k \in shared : \A o \in shared : k <= o]
           other1 == IF cut1.edge[1] = sharedIdx THEN cut1.edge[2] ELSE cut1.edge[1]
           other2 == IF cut2.edge[1] = sharedIdx THEN cut2.edge[2] ELSE cut2.edge[1]
           newVerts1 == IF cut1.edge[1] = sharedIdx THEN cut1.newVerts
                        ELSE Reverse(cut1.newVerts)
           newVerts2 == IF cut2.edge[1] = sharedIdx THEN cut2.newVerts
                        ELSE Reverse(cut2.newVerts)
           lastNew1 == At(newVerts1, Len(newVerts1) - 1)
           lastNew2 == At(newVerts2, Len(newVerts2) - 1)
       IN <<sharedIdx, At(newVerts1, 0), At(newVerts2, 0)>>
          \o Flat(LAMBDA k : <<At(newVerts1, k), At(newVerts1, k + 1), At(newVerts2, k),
                               At(newVerts2, k), At(newVerts1, k + 1), At(newVerts2, k + 1)>>,
                  0, numberOfCuts - 2)
          \o <<lastNew1, other1, other2, lastNew1, other2, lastNew2>>

\* a fan without the triangles between the new vertices
LoopCutOneEndsOnly(triVerts, cut) ==
  LET a == cut.edge[1]
      b == cut.edge[2]
      c == CHOOSE v \in Range(triVerts) : v # a /\ v # b
  IN <<c, a, At(cut.newVerts, 0), c, At(cut.newVerts, Len(cut.newVerts) - 1), b>>

\* the fan that replaces a triangle with one cut edge
LoopCutOne(triVerts, cut) ==
  LET a == cut.edge[1]
      b == cut.edge[2]
      others == {k \in 1..3 : triVerts[k] # a /\ triVerts[k] # b}
      c == IF others = {} THEN Undefined
           ELSE triVerts[CHOOSE k \in others : \A o \in others : k <= o]
  IN <<c, a, At(cut.newVerts, 0)>>
     \o Flat(LAMBDA k : <<c, At(cut.newVerts, k), At(cut.newVerts, k + 1)>>,
             0, Len(cut.newVerts) - 2)
     \o <<c, At(cut.newVerts, Len(cut.newVerts) - 1), b>>

LoopCutTriangle(triVerts, selectedEdges, numberOfCuts, base) ==
  LET cutEdges == CutEdges(triVerts, selectedEdges, numberOfCuts, base)
  IN IF Len(cutEdges) = 0 THEN triVerts
     ELSE IF Len(cutEdges) = 2
       THEN LoopCutTwo(triVerts, cutEdges[1], cutEdges[2], numberOfCuts)
     ELSE IF Len(cutEdges) = 1 THEN LoopCutOne(triVerts, cutEdges[1])
     ELSE triVerts

loopCut(mesh, selectedEdges, numberOfCuts) ==
  IF Len(selectedEdges) = 0 THEN ReturnMesh(mesh)
  ELSE
    LET geometry == mesh.geometry
        base == geometry.vertexCount
        \* cut i of selected edge n, walking from its first endpoint to its second
        CutVertex(n, i) ==
          vec3Lerp(Vec(geometry.vertices, selectedEdges[n][1]),
                   Vec(geometry.vertices, selectedEdges[n][2]), i, numberOfCuts + 1)
        CutNormal(n, i) ==
          vec3Normalize(vec3Lerp(Vec(geometry.normals, selectedEdges[n][1]),
                                 Vec(geometry.normals, selectedEdges[n][2]),
                                 i, numberOfCuts + 1))
        CutUv(n, i) ==
          LET ua == Uv(geometry.uvs, selectedEdges[n][1])
              ub == Uv(geometry.uvs, selectedEdges[n][2])
          IN <<Lerp(ua[1], ub[1], i, numberOfCuts + 1),
               Lerp(ua[2], ub[2], i, numberOfCuts + 1)>>
        newVertices ==
          geometry.vertices \o
          Flat(LAMBDA n : Flat(LAMBDA i : CutVertex(n, i), 1, numberOfCuts),
               1, Len(selectedEdges))
        newNormals ==
          geometry.normals \o
          Flat(LAMBDA n : Flat(LAMBDA i : CutNormal(n, i), 1, numberOfCuts),
               1, Len(selectedEdges))
        newUvs ==
          geometry.uvs \o
          Flat(LAMBDA n : Flat(LAMBDA i : CutUv(n, i), 1, numberOfCuts),
               1, Len(selectedEdges))
        newIndices ==
          Flat(LAMBDA t : LoopCutTriangle(Triangle(geometry.indices, t), selectedEdges,
                                          numberOfCuts, base),
               0, TriangleCount(geometry.indices) - 1)
    IN ReturnNew(mesh, NewGeometry(geometry.id, newVertices, newNormals, newUvs, newIndices,
                                   BuildEdges(newIndices), BuildFaces(newIndices, newNormals)))

(***************************************************************************)
(* Array.                                                                  *)
(***************************************************************************)
vec3DistSq(a, b) == vec3LengthSq(vec3Sub(a, b))

RECURSIVE MergeFrom(_, _, _, _, _)
\* the loop of mergeCloseVertices from vertex i on: kept lists the vertices pushed
\* so far, indexMap[i + 1] is the new index of vertex i
MergeFrom(vertices, thresholdSq, i, kept, indexMap) ==
  IF i >= Len(vertices) \div 3 THEN [kept |-> kept, indexMap |-> indexMap]
  ELSE
    LET close == {j \in 1..Len(kept) :
                    vec3DistSq(Vec(vertices, kept[j]), Vec(vertices, i)) < thresholdSq}
    IN IF close # {}
       THEN MergeFrom(vertices, thresholdSq, i + 1, kept,
                      Append(indexMap, (CHOOSE j \in close : \A o \in close : j <= o) - 1))
       ELSE MergeFrom(vertices, thresholdSq, i + 1, Append(kept, i),
                      Append(indexMap, Len(kept)))

mergeCloseVertices(vertices, normals, uvs, indices, threshold) ==
  LET merged == MergeFrom(vertices, threshold * threshold, 0, <<>>, <<>>)
      kept == merged.kept
      mapped(i) == At(merged.indexMap, i)
  IN [vertices |-> Flat(LAMBDA j : Vec(vertices, kept[j]), 1, Len(kept)),
      normals |-> Flat(LAMBDA j : Vec(normals, kept[j]), 1, Len(kept)),
      uvs |-> Flat(LAMBDA j : Uv(uvs, kept[j]), 1, Len(kept)),
      indices |-> [n \in 1..Len(indices) |->
                     ToUint16(IF mapped(indices[n]) # Undefined THEN mapped(indices[n])
                              ELSE indices[n])],
      vertexCount |-> Len(kept)]

\* the extent of the mesh along coordinate c (1..3)
BoxSize(geometry, c) ==
  LET coords == {At(geometry.vertices, 3 * i + c - 1) : i \in 0..(geometry.vertexCount - 1)}
  IN (CHOOSE hi \in coords : \A o \in coords : o <= hi)
     - (CHOOSE lo \in coords : \A o \in coords : lo <= o)

array(mesh, count, offset, offsetType, mergeVertices, mergeThreshold) ==
  IF count <= 1 THEN ReturnMesh(mesh)
  ELSE
    LET geometry == mesh.geometry
        origVertexCount == geometry.vertexCount
        actualOffset ==
          IF offsetType = "relative"
          THEN <<BoxSize(geometry, 1) * offset[1], BoxSize(geometry, 2) * offset[2],
                 BoxSize(geometry, 3) * offset[3]>>
          ELSE offset
        CopyOffset(copy) ==
          <<actualOffset[1] * copy, actualOffset[2] * copy, actualOffset[3] * copy>>
        newVertices ==
          Flat(LAMBDA copy :
                 Flat(LAMBDA i : vec3Add(Vec(geometry.vertices, i), CopyOffset(copy)),
                      0, origVertexCount - 1),
               0, count - 1)
        newNormals == Flat(LAMBDA copy : geometry.normals, 0, count - 1)
        newUvs == Flat(LAMBDA copy : geometry.uvs, 0, count - 1)
        newIndices ==
          Flat(LAMBDA copy :
                 [n \in 1..Len(geometry.indices) |->
                    geometry.indices[n] + copy * origVertexCount],
               0, count - 1)
        merged == mergeCloseVertices(newVertices, newNormals, newUvs,
                                     [n \in 1..Len(newIndices) |-> ToUint16(newIndices[n])],
                                     mergeThreshold)
        finalVertices == IF mergeVertices THEN merged.vertices ELSE newVertices
        finalNormals == IF mergeVertices THEN merged.normals ELSE newNormals
        finalUvs == IF mergeVertices THEN merged.uvs ELSE newUvs
        finalIndices == IF mergeVertices THEN merged.indices ELSE newIndices
    IN ReturnNew(mesh, NewGeometry(geometry.id, finalVertices, finalNormals, finalUvs,
                                   finalIndices, BuildEdges(finalIndices),
                                   BuildFaces(finalIndices, finalNormals)))

(***************************************************************************)
(* Bevel.                                                                  *)
(***************************************************************************)
vec3Scale(v, num, den) == <<Quot(v[1] * num, den), Quot(v[2] * num, den), Quot(v[3] * num, den)>>

\* the offsets pushed into vertexOffsets, in the order they are pushed: for each
\* selected edge and each face that has both its ends, one for a and one for b
BevelPushes(geometry, selectedEdges, amount) ==
  Flat(LAMBDA n :
         LET a == selectedEdges[n][1]
             b == selectedEdges[n][2]
             edgeDir == vec3Normalize(vec3Sub(Vec(geometry.vertices, b),
                                              Vec(geometry.vertices, a)))
         IN Flat(LAMBDA f :
                   LET face == geometry.faces[f]
                       perpDir == vec3Normalize(vec3Cross(edgeDir, face.normal))
                   IN IF Includes(face.vertices, a) /\ Includes(face.vertices, b)
                      THEN <<[vertex |-> a, offset |-> vec3Scale(perpDir, amount, NormalScale)],
                             [vertex |-> b, offset |-> vec3Scale(perpDir, amount, NormalScale)]>>
                      ELSE <<>>,
                 1, Len(geometry.faces)),
       1, Len(selectedEdges))

\* face normal of a triangle from its corner positions
TriangleNormal(vertices, tri) ==
  vec3Normalize(vec3Cross(vec3Sub(Vec(vertices, tri[2]), Vec(vertices, tri[1])),
                          vec3Sub(Vec(vertices, tri[3]), Vec(vertices, tri[1]))))

BuildFacesGeometric(ix, vertices) ==
  [t \in 1..TriangleCount(ix) |->
     [vertices |-> Triangle(ix, t - 1),
      normal |-> TriangleNormal(vertices, Triangle(ix, t - 1))]]

bevel(mesh, selectedEdges, amount) ==
  IF Len(selectedEdges) = 0 THEN ReturnMesh(mesh)
  ELSE
    Then(BevelPushes(mesh.geometry, selectedEdges, amount), LAMBDA pushes :
    \* the keys of vertexOffsets in insertion order
    Then(Dedup([k \in 1..Len(pushes) |-> pushes[k].vertex]), LAMBDA order :
    \* the new vertices, grouped by original vertex
    Then(Flat(LAMBDA o :
                Flat(LAMBDA k : IF pushes[k].vertex = order[o] THEN <<pushes[k]>> ELSE <<>>,
                     1, Len(pushes)),
              1, Len(order)), LAMBDA grouped :
    LET geometry == mesh.geometry
        base == geometry.vertexCount
        \* newVertexMap.get(v)[0], Undefined when v has no entry
        FirstNew(v) ==
          LET at == {k \in 1..Len(grouped) : grouped[k].vertex = v}
          IN IF at = {} THEN Undefined
             ELSE base + (CHOOSE k \in at : \A o \in at : k <= o) - 1
        newVertices ==
          geometry.vertices \o
          Flat(LAMBDA k : vec3Add(Vec(geometry.vertices, grouped[k].vertex), grouped[k].offset),
               1, Len(grouped))
        newNormals ==
          geometry.normals \o
          Flat(LAMBDA k : Vec(geometry.normals, grouped[k].vertex), 1, Len(grouped))
        newUvs ==
          geometry.uvs \o Flat(LAMBDA k : Uv(geometry.uvs, grouped[k].vertex), 1, Len(grouped))
        replaced ==
          [n \in 1..Len(geometry.indices) |->
             IF FirstNew(geometry.indices[n]) # Undefined THEN FirstNew(geometry.indices[n])
             ELSE geometry.indices[n]]
        bevelFaces ==
          Flat(LAMBDA n :
                 LET a == selectedEdges[n][1]
                     b == selectedEdges[n][2]
                 IN IF FirstNew(a) # Undefined /\ FirstNew(b) # Undefined
                    THEN <<a, FirstNew(a), FirstNew(b), a, FirstNew(b), b>>
                    ELSE <<>>,
               1, Len(selectedEdges))
    IN Then(newVertices, LAMBDA vs : Then(replaced \o bevelFaces, LAMBDA newIndices :
         ReturnNew(mesh, NewGeometry(geometry.id, vs, newNormals, newUvs, newIndices,
                                     BuildEdges(newIndices),
                                     BuildFacesGeometric(newIndices, vs))))))))

(***************************************************************************)
(* Solidify.                                                               *)
(***************************************************************************)
\* the sides of the triangles, in the direction and order the triangles give them
DirectedSides(ix) ==
  Flat(LAMBDA t : LET tri == Triangle(ix, t)
                  IN <<<<tri[1], tri[2]>>, <<tri[2], tri[3]>>, <<tri[3], tri[1]>>>>,
       0, TriangleCount(ix) - 1)

\* sides that belong to one triangle only
findBoundaryEdges(geometry) ==
  Then(DirectedSides(geometry.indices), LAMBDA sides :
    LET Count(k) == Cardinality({j \in 1..Len(sides) :
                                   EdgeKey(sides[j][1], sides[j][2])
                                   = EdgeKey(sides[k][1], sides[k][2])})
    IN Flat(LAMBDA k : IF Count(k) = 1 THEN <<sides[k]>> ELSE <<>>, 1, Len(sides)))

\* sum over the triangle corners equal to v of the normal of the triangle's first corner
CornerNormalSum(geometry, v) ==
  LET ix == geometry.indices
      Term(n) == IF ix[n] = v THEN Vec(geometry.normals, ix[3 * ((n - 1) \div 3) + 1])
                 ELSE <<0, 0, 0>>
      Sum(c) == LET S[n \in 0..Len(ix)] == IF n = 0 THEN 0 ELSE S[n - 1] + Term(n)[c]
                IN S[Len(ix)]
  IN <<Sum(1), Sum(2), Sum(3)>>

solidify(mesh, thickness, offset, evenThickness, fillRim) ==
  LET geometry == mesh.geometry
      origVertexCount == geometry.vertexCount
      \* twice the offsets: thickness * (offset -+ 1) / 2
      innerOffset2 == thickness * (offset - 1)
      outerOffset2 == thickness * (offset + 1)
      Direction(i) == IF evenThickness THEN vec3Normalize(CornerNormalSum(geometry, i))
                      ELSE Vec(geometry.normals, i)
      Displaced(i, offset2) ==
        vec3Add(Vec(geometry.vertices, i), vec3Scale(Direction(i), offset2, 2 * NormalScale))
      outerVertices == Flat(LAMBDA i : Displaced(i, outerOffset2), 0, origVertexCount - 1)
      innerVertices == Flat(LAMBDA i : Displaced(i, innerOffset2), 0, origVertexCount - 1)
      innerStartIdx == origVertexCount
  IN
  Then(outerVertices \o innerVertices, LAMBDA shellVertices :
  Then(geometry.normals \o [n \in 1..Len(geometry.normals) |-> -geometry.normals[n]],
       LAMBDA shellNormals :
  Then(IF fillRim THEN findBoundaryEdges(geometry) ELSE <<>>, LAMBDA boundaryEdges :
  LET innerIndices ==
        Flat(LAMBDA t : LET tri == Triangle(geometry.indices, t)
                        IN <<tri[1] + innerStartIdx, tri[3] + innerStartIdx,
                             tri[2] + innerStartIdx>>,
             0, TriangleCount(geometry.indices) - 1)
      rimNormal(e) ==
        vec3Normalize(vec3Cross(vec3Sub(Vec(shellVertices, e[2]), Vec(shellVertices, e[1])),
                                Vec(shellNormals, e[1])))
      rimStart(k) == 2 * origVertexCount + 4 * (k - 1)
      newVertices ==
        shellVertices \o
        Flat(LAMBDA k : LET e == boundaryEdges[k]
                        IN Vec(shellVertices, e[1]) \o Vec(shellVertices, e[2])
                           \o Vec(shellVertices, e[2] + innerStartIdx)
                           \o Vec(shellVertices, e[1] + innerStartIdx),
             1, Len(boundaryEdges))
      newNormals ==
        shellNormals \o
        Flat(LAMBDA k : LET n == rimNormal(boundaryEdges[k]) IN n \o n \o n \o n,
             1, Len(boundaryEdges))
      newUvs ==
        geometry.uvs \o geometry.uvs \o
        Flat(LAMBDA k : <<0, 0, UvScale, 0, UvScale, UvScale, 0, UvScale>>,
             1, Len(boundaryEdges))
      newIndices ==
        geometry.indices \o innerIndices \o
        Flat(LAMBDA k : <<rimStart(k), rimStart(k) + 1, rimStart(k) + 2,
                          rimStart(k), rimStart(k) + 2, rimStart(k) + 3>>,
             1, Len(boundaryEdges))
  IN Then(newNormals, LAMBDA ns : Then(newIndices, LAMBDA ix :
       ReturnNew(mesh, NewGeometry(geometry.id, newVertices, ns, newUvs, ix,
                                   BuildEdges(ix), BuildFaces(ix, ns))))))))

(***************************************************************************)
(* Subdivide.                                                              *)
(***************************************************************************)
RECURSIVE SumTo(_, _, _)
\* F(lo) + F(lo+1) + ... + F(hi)
SumTo(F(_), lo, hi) ==
  IF lo > hi THEN 0
  ELSE IF lo = hi THEN F(lo)
  ELSE SumTo(F, lo, (lo + hi) \div 2) + SumTo(F, (lo + hi) \div 2 + 1, hi)

\* one pass: every triangle becomes four
subdivideOnce(geometry, smooth) ==
  Then(DirectedSides(geometry.indices), LAMBDA sides :
  \* the sides whose getMidpoint call creates the midpoint, in creation order
  Then({k \in 1..Len(sides) :
          \A j \in 1..(k - 1) : EdgeKey(sides[j][1], sides[j][2])
                                # EdgeKey(sides[k][1], sides[k][2])}, LAMBDA created :
  Then([n \in 1..Cardinality(created) |->
          CHOOSE k \in created : Cardinality({j \in created : j <= k}) = n], LAMBDA creator :
  Then(Flat(LAMBDA n : vec3Lerp(Vec(geometry.vertices, sides[creator[n]][1]),
                                Vec(geometry.vertices, sides[creator[n]][2]), 1, 2),
            1, Len(creator)), LAMBDA midVertices :
  Then(geometry.normals \o
       Flat(LAMBDA n :
              vec3Normalize(vec3Lerp(Vec(geometry.normals, sides[creator[n]][1]),
                                     Vec(geometry.normals, sides[creator[n]][2]), 1, 2)),
            1, Len(creator)), LAMBDA newNormals :
  LET base == geometry.vertexCount
      getMidpoint(a, b) ==
        base - 1 + CHOOSE n \in 1..Len(creator) :
                     EdgeKey(sides[creator[n]][1], sides[creator[n]][2]) = EdgeKey(a, b)
      midUvs ==
        Flat(LAMBDA n : LET ua == Uv(geometry.uvs, sides[creator[n]][1])
                            ub == Uv(geometry.uvs, sides[creator[n]][2])
                        IN <<Quot(ua[1] + ub[1], 2), Quot(ua[2] + ub[2], 2)>>,
             1, Len(creator))
  IN
  Then(geometry.vertices \o midVertices, LAMBDA unsmoothed :
  Then(Flat(LAMBDA t :
              LET tri == Triangle(geometry.indices, t)
                  m01 == getMidpoint(tri[1], tri[2])
                  m12 == getMidpoint(tri[2], tri[3])
                  m20 == getMidpoint(tri[3], tri[1])
              IN <<tri[1], m01, m20, m01, tri[2], m12, m20, m12, tri[3], m01, m12, m20>>,
            0, TriangleCount(geometry.indices) - 1), LAMBDA newIndices :
  LET neighbors(i) ==
        {newIndices[n] : n \in {m \in 1..Len(newIndices) :
           \E c \in (3 * ((m - 1) \div 3) + 1)..(3 * ((m - 1) \div 3) + 3) :
             c # m /\ newIndices[c] = i}}
      Smoothed(i) ==
        Then(neighbors(i), LAMBDA nb :
          LET Sum(c) == SumTo(LAMBDA v : IF v \in nb THEN At(unsmoothed, 3 * v + c - 1) ELSE 0,
                              0, Len(unsmoothed) \div 3 - 1)
              avg == <<Quot(Sum(1), Cardinality(nb)), Quot(Sum(2), Cardinality(nb)),
                       Quot(Sum(3), Cardinality(nb))>>
          IN IF nb = {} THEN Vec(unsmoothed, i) ELSE vec3Lerp(Vec(unsmoothed, i), avg, 1, 4))
      newVertices ==
        IF smooth THEN Flat(LAMBDA i : Smoothed(i), 0, base - 1) \o midVertices
        ELSE unsmoothed
  IN NewGeometry(geometry.id, newVertices, newNormals, geometry.uvs \o midUvs, newIndices,
                 BuildEdges(newIndices), BuildFaces(newIndices, newNormals)))))))))

\* a loop that stops after its first pass
SubdivideTimesOnePass(geometry, iterations, smooth) ==
  IF iterations <= 0 THEN geometry ELSE subdivideOnce(geometry, smooth)

RECURSIVE SubdivideTimes(_, _, _)
SubdivideTimes(geometry, iterations, smooth) ==
  IF iterations <= 0 THEN geometry
  ELSE SubdivideTimes(subdivideOnce(geometry, smooth), iterations - 1, smooth)

subdivide(mesh, iterations, smooth) ==
  IF iterations <= 0 THEN ReturnMesh(mesh)
  ELSE ReturnNew(mesh, SubdivideTimes(mesh.geometry, iterations, smooth))

(***************************************************************************)
(* Knife.  The intersection test is computed in exact fractions: u, v, t   *)
(* and the barycentric coordinates are numerators over the common          *)
(* denominator den > 0.                                                    *)
(***************************************************************************)
vec3Dot(a, b) == a[1] * b[1] + a[2] * b[2] + a[3] * b[3]

NoHit == [hit |-> FALSE, den |-> 1, bary |-> <<0, 0, 0>>]

segmentTriangleIntersect(p0, p1, v0, v1, v2) ==
  LET e1 == vec3Sub(v1, v0)
      e2 == vec3Sub(v2, v0)
      dir == vec3Sub(p1, p0)
      h == vec3Cross(dir, e2)
      a == vec3Dot(e1, h)
      sign == IF a < 0 THEN -1 ELSE 1
      den == sign * a
      sv == vec3Sub(p0, v0)
      u == sign * vec3Dot(sv, h)
      q == vec3Cross(sv, e1)
      v == sign * vec3Dot(dir, q)
      t == sign * vec3Dot(e2, q)
  IN IF a = 0 THEN NoHit
     ELSE IF u < 0 \/ u > den THEN NoHit
     ELSE IF v < 0 \/ u + v > den THEN NoHit
     ELSE IF t < 0 \/ t > den THEN NoHit
     ELSE [hit |-> TRUE, den |-> den, bary |-> <<den - u - v, u, v>>]

\* the cut a hit records for its triangle: <<>> when the hit is near a corner,
\* else the first edge whose opposite barycentric coordinate is below 0.9
EdgeToSplit(result) ==
  LET baryVals == result.bary
      nearVertex == \E c \in 1..3 : 20 * baryVals[c] > 19 * result.den
      Low(e) == 10 * baryVals[((e + 2) % 3) + 1] < 9 * result.den
      low == {e \in 0..2 : Low(e)}
      edge == CHOOSE e \in low : \A o \in low : e <= o
  IN IF ~result.hit \/ nearVertex \/ low = {} THEN <<>>
     ELSE <<[edge |-> edge,
             num |-> baryVals[((edge + 1) % 3) + 1],
             den |-> baryVals[edge + 1] + baryVals[((edge + 1) % 3) + 1]]>>

\* the ends of segment segIdx, stretched when the cut goes through
KnifeSegment(points, throughCut, segIdx) ==
  LET segStart == points[segIdx + 1]
      segEnd == points[segIdx + 2]
      dir == vec3Normalize(vec3Sub(segEnd, segStart))
  IN IF throughCut
     THEN <<vec3Sub(segStart, vec3Scale(dir, 1000, NormalScale)),
            vec3Add(segEnd, vec3Scale(dir, 1000, NormalScale))>>
     ELSE <<segStart, segEnd>>

\* triangleCuts.get(triIdx): the cuts of the triangle in segment order
TriangleCuts(geometry, points, throughCut, triIdx) ==
  LET tri == Triangle(geometry.indices, triIdx)
  IN Flat(LAMBDA segIdx :
            LET seg == KnifeSegment(points, throughCut, segIdx)
            IN EdgeToSplit(segmentTriangleIntersect(
                 seg[1], seg[2], Vec(geometry.vertices, tri[1]),
                 Vec(geometry.vertices, tri[2]), Vec(geometry.vertices, tri[3]))),
          0, Len(points) - 2)

\* two cuts left in the order they were recorded in
SortTwoUnsorted(cuts) == cuts

\* cuts.sort((a, b) => a.edge - b.edge) of two cuts
SortTwo(cuts) == IF cuts[2].edge < cuts[1].edge THEN <<cuts[2], cuts[1]>> ELSE cuts

\* a split point of three components whatever the stride
SplitPointOfThree(buf, n, v0, v1, c) ==
  [k \in 1..3 |-> Lerp(At(buf, n * v0 + k - 1), At(buf, n * v1 + k - 1), c.num, c.den)]

\* the point splitEdge pushes into a buffer of stride n
SplitPoint(buf, n, v0, v1, c) ==
  [k \in 1..n |-> Lerp(At(buf, n * v0 + k - 1), At(buf, n * v1 + k - 1), c.num, c.den)]

\* the triangles and split points that replace triangle triIdx; newIdx is the
\* number of vertices before its first splitEdge call
KnifeTriangle(geometry, cuts, triIdx, newIdx) ==
  LET tri == Triangle(geometry.indices, triIdx)
      edgeVerts(e) == <<tri[e + 1], tri[((e + 1) % 3) + 1]>>
      sorted == IF Len(cuts) = 2 THEN SortTwo(cuts) ELSE cuts
      splits == IF Len(cuts) = 1 \/ Len(cuts) = 2 THEN sorted ELSE <<>>
      edge0 == sorted[1].edge
      edge1 == sorted[2].edge
  IN [splits |-> [k \in 1..Len(splits) |->
                    [v0 |-> edgeVerts(splits[k].edge)[1],
                     v1 |-> edgeVerts(splits[k].edge)[2], cut |-> splits[k]]],
      indices |->
        IF Len(cuts) = 1
        THEN <<edgeVerts(edge0)[1], newIdx, tri[((edge0 + 2) % 3) + 1],
               newIdx, edgeVerts(edge0)[2], tri[((edge0 + 2) % 3) + 1]>>
        ELSE IF Len(cuts) = 2 /\ (edge1 - edge0 = 1 \/ (edge0 = 0 /\ edge1 = 2))
        THEN LET sharedVert == tri[((edge0 + 1) % 3) + 1]
                 startVert == edgeVerts(edge0)[1]
                 endVert == edgeVerts(edge1)[2]
             IN <<startVert, newIdx, newIdx + 1, startVert, newIdx + 1, endVert,
                  newIdx, sharedVert, newIdx + 1>>
        ELSE tri]

knifeCut(mesh, points, throughCut) ==
  IF Len(points) < 2 THEN ReturnMesh(mesh)
  ELSE
    LET geometry == mesh.geometry
        count == TriangleCount(geometry.indices)
        cuts == [t \in 1..count |-> TriangleCuts(geometry, points, throughCut, t - 1)]
        SplitsOf(t) == IF Len(cuts[t]) = 1 \/ Len(cuts[t]) = 2 THEN Len(cuts[t]) ELSE 0
        newIdx(t) == geometry.vertexCount + SumTo(LAMBDA o : SplitsOf(o), 1, t - 1)
        rebuilt == [t \in 1..count |-> KnifeTriangle(geometry, cuts[t], t - 1, newIdx(t))]
        splits == Flat(LAMBDA t : rebuilt[t].splits, 1, count)
        vertices ==
          geometry.vertices \o
          Flat(LAMBDA k : SplitPoint(geometry.vertices, 3, splits[k].v0, splits[k].v1,
                                     splits[k].cut), 1, Len(splits))
        normals ==
          geometry.normals \o
          Flat(LAMBDA k : SplitPoint(geometry.normals, 3, splits[k].v0, splits[k].v1,
                                     splits[k].cut), 1, Len(splits))
        uvs ==
          geometry.uvs \o
          Flat(LAMBDA k : SplitPoint(geometry.uvs, 2, splits[k].v0, splits[k].v1,
                                     splits[k].cut), 1, Len(splits))
        indices == Flat(LAMBDA t : rebuilt[t].indices, 1, count)
    IN ReturnNew(mesh, NewGeometry(geometry.id, vertices, normals, uvs, indices,
                                   BuildEdges(indices), BuildFaces(indices, normals)))

\* a path drawn in the plane y = 0 across the one-cell plane, from the middle
\* of one side to the middle of the opposite side
InPlanePath == <<<<-2, 0, 0>>, <<2, 0, 0>>>>

\* a path of two segments through the first triangle of the one-cell plane:
\* the first meets it at barycentric coordinates (1/12, 0, 11/12), the second
\* at (1/4, 1/8, 5/8)
TwoCutPath == <<<<1, 2, -2>>, <<2, -1, -2>>, <<-1, 1, -1>>>>

\* points a cut path is drawn through
KnifePoints == {<<-1, 1, -1>>, <<-1, -1, -1>>, <<1, -3, 1>>, <<1, 1, 0>>}

(***************************************************************************)
(* Bridge edge loops.                                                      *)
(***************************************************************************)
\* the % of JavaScript: the sign of the result is the sign of a
JsMod(a, n) == IF a >= 0 THEN a % n ELSE -((-a) % n)

\* Euclidean distance in hundredths of a grid unit
vec3Distance(a, b) == Sqrt(vec3DistSq(a, b) * 10000)

\* the blended t of intermediate loop s as a fraction
BlendT(blend, s, segments) ==
  IF blend = "smooth"
  THEN [num |-> s * s * (3 * segments - 2 * s), den |-> segments * segments * segments]
  ELSE IF blend = "sphere"
  THEN [num |-> Sqrt(100 * (segments * segments - (2 * s - segments) * (2 * s - segments)))
                + 10 * segments,
        den |-> 20 * segments]
  ELSE [num |-> s, den |-> segments]

\* Math.sin(Math.PI * t) as a fraction (16 t (1 - t) / (5 - 4 t (1 - t)))
SinPi(t) ==
  [num |-> 16 * t.num * (t.den - t.num),
   den |-> 5 * t.den * t.den - 4 * t.num * (t.den - t.num)]

findOptimalAlignment(loop1Pos, loop2Pos) ==
  IF Len(loop1Pos) # Len(loop2Pos) THEN 0
  ELSE
    LET n == Len(loop2Pos)
        totalDist(offset) ==
          SumTo(LAMBDA i : vec3Distance(loop1Pos[i + 1], loop2Pos[((i + offset) % n) + 1]),
                0, n - 1)
    IN CHOOSE best \in 0..(n - 1) :
         /\ \A o \in 0..(best - 1) : totalDist(o) > totalDist(best)
         /\ \A o \in best..(n - 1) : totalDist(o) >= totalDist(best)

bridgeEdgeLoops(mesh, loop1, loop2, twist, segments, smoothness, blend) ==
  IF Len(loop1) < 3 \/ Len(loop2) < 3 THEN ReturnMesh(mesh)
  ELSE
    LET geometry == mesh.geometry
        getPos(idx) == Vec(geometry.vertices, idx)
        getNormal(idx) == Vec(geometry.normals, idx)
        getUV(idx) == Uv(geometry.uvs, idx)
        alignmentOffset ==
          IF Len(loop1) = Len(loop2) /\ twist = 0
          THEN findOptimalAlignment([i \in 1..Len(loop1) |-> getPos(loop1[i])],
                                    [i \in 1..Len(loop2) |-> getPos(loop2[i])])
          ELSE twist
        count == Max(Len(loop1), Len(loop2))
        base == geometry.vertexCount
        I1(i) == At(loop1, i % Len(loop1))
        I2(i) == At(loop2, JsMod(i + alignmentOffset, Len(loop2)))
        Pos(s, i) ==
          LET t == BlendT(blend, s, segments)
              p1 == getPos(I1(i))
              p2 == getPos(I2(i))
              bulge == vec3Normalize(vec3Add(getNormal(I1(i)), getNormal(I2(i))))
              sin == SinPi(t)
              \* sin(pi t) * smoothness * distance * 0.25, in grid units
              amountNum == sin.num * smoothness * vec3Distance(p1, p2)
              amountDen == sin.den * 4 * 100
          IN IF smoothness > 0
             THEN vec3Add(vec3Lerp(p1, p2, t.num, t.den),
                          vec3Scale(bulge, amountNum, amountDen * NormalScale))
             ELSE vec3Lerp(p1, p2, t.num, t.den)
        Normal(s, i) ==
          LET t == BlendT(blend, s, segments)
          IN vec3Normalize(vec3Lerp(getNormal(I1(i)), getNormal(I2(i)), t.num, t.den))
        UvAt(s, i) ==
          LET t == BlendT(blend, s, segments)
              uv1 == getUV(I1(i))
              uv2 == getUV(I2(i))
          IN <<Lerp(uv1[1], uv2[1], t.num, t.den), Lerp(uv1[2], uv2[2], t.num, t.den)>>
        newVertices ==
          geometry.vertices \o
          Flat(LAMBDA s : Flat(LAMBDA i : Pos(s, i), 0, count - 1), 1, segments - 1)
        newNormals ==
          geometry.normals \o
          Flat(LAMBDA s : Flat(LAMBDA i : Normal(s, i), 0, count - 1), 1, segments - 1)
        newUvs ==
          geometry.uvs \o
          Flat(LAMBDA s : Flat(LAMBDA i : UvAt(s, i), 0, count - 1), 1, segments - 1)
        allLoops ==
          <<loop1>>
          \o [s \in 1..(segments - 1) |-> [i \in 1..count |-> base + (s - 1) * count + i - 1]]
          \o <<[i \in 1..Len(loop2) |-> I2(i - 1)]>>
        Quads(l) ==
          LET currentLoop == allLoops[l]
              nextLoop == allLoops[l + 1]
          IN Flat(LAMBDA i :
                    LET v0 == At(currentLoop, i % Len(currentLoop))
                        v1 == At(currentLoop, (i + 1) % Len(currentLoop))
                        v2 == At(nextLoop, i % Len(nextLoop))
                        v3 == At(nextLoop, (i + 1) % Len(nextLoop))
                    IN <<v0, v1, v3, v0, v3, v2>>,
                  0, Max(Len(currentLoop), Len(nextLoop)) - 1)
        newIndices == geometry.indices \o Flat(LAMBDA l : Quads(l), 1, Len(allLoops) - 1)
    IN \* loop2Pos[i2] is undefined for a negative i2: vec3Lerp reads p2.x and throws
       IF segments > 1 /\ \E i \in 0..(count - 1) : I2(i) = Undefined
       THEN Throws(mesh)
       ELSE ReturnNew(mesh, NewGeometry(geometry.id, newVertices, newNormals, newUvs,
                                        newIndices, BuildEdges(newIndices),
                                        BuildFaces(newIndices, newNormals)))

\* vertex loops a caller may hand to the bridge: too short, the first three
\* vertices, the last three, the first four
LoopChoices(m) ==
  {<<0, 1>>, <<0, 1, 2>>, <<0, 1, 2, 3>>,
   <<m.geometry.vertexCount - 3, m.geometry.vertexCount - 2, m.geometry.vertexCount - 1>>}

(***************************************************************************)
(* Decimate.  The edge to collapse is the one of least quadric error, a    *)
(* sum of float products the model does not compute: any edge the search   *)
(* does not skip may be the one (pick).                                    *)
(***************************************************************************)
RemoveAt(seq, drop) ==
  Flat(LAMBDA k : IF k \in drop THEN <<>> ELSE <<seq[k]>>, 1, Len(seq))

\* edges whose two ends are not in removedVertices, as places of the edge list
LiveEdges(edges, removed) ==
  {k \in 1..Len(edges) : edges[k][1] \notin removed /\ edges[k][2] \notin removed}

\* one turn of the while loop of decimateCollapse with bestEdge the edge found:
\* v1 goes to the midpoint, v2 is marked removed, faces and edges are remapped
\* and the degenerate ones spliced out
CollapseOnce(vertices, faces, edges, removed, bestEdge) ==
  LET v1 == bestEdge[1]
      v2 == bestEdge[2]
      mid == <<Quot(vertices[v1 + 1][1] + vertices[v2 + 1][1], 2),
               Quot(vertices[v1 + 1][2] + vertices[v2 + 1][2], 2),
               Quot(vertices[v1 + 1][3] + vertices[v2 + 1][3], 2)>>
      Remap(v) == IF v = v2 THEN v1 ELSE v
      remapped == [k \in 1..Len(faces) |->
                     <<Remap(faces[k][1]), Remap(faces[k][2]), Remap(faces[k][3])>>]
      degenerate == {k \in 1..Len(faces) :
                       \/ remapped[k][1] = remapped[k][2]
                       \/ remapped[k][2] = remapped[k][3]
                       \/ remapped[k][3] = remapped[k][1]}
      moved == [k \in 1..Len(edges) |-> <<Remap(edges[k][1]), Remap(edges[k][2])>>]
      collapsed == {k \in 1..Len(edges) : moved[k][1] = moved[k][2]}
  IN [vertices |-> [vertices EXCEPT ![v1 + 1] = mid],
      faces |-> RemoveAt(remapped, degenerate),
      edges |-> RemoveAt(moved, collapsed),
      removed |-> removed \cup {v2}]

RECURSIVE CollapseLoop(_, _, _, _, _, _)
\* the while loop of decimateCollapse: vertices as a list of positions, faces as
\* a list of triples, edges as a list of pairs, removed the removedVertices set
CollapseLoop(vertices, faces, edges, removed, targetFaceCount, pick) ==
  Then(LiveEdges(edges, removed), LAMBDA live :
    IF Len(faces) <= targetFaceCount \/ live = {}
    THEN [vertices |-> vertices, faces |-> faces]
    ELSE
      Then(CollapseOnce(vertices, faces, edges, removed,
                        edges[CHOOSE k \in live :
                                Cardinality({j \in live : j < k}) = pick % Cardinality(live)]),
           LAMBDA s :
             CollapseLoop(s.vertices, s.faces, s.edges, s.removed, targetFaceCount, pick)))

\* the rebuild of decimateCollapse: the vertices the surviving faces name, in
\* the order they are first named, and the faces renumbered onto them
RebuildCollapsed(mesh, done) ==
  LET geometry == mesh.geometry
  IN
  Then(Flat(LAMBDA k : done.faces[k], 1, Len(done.faces)), LAMBDA corners :
  \* the keys of newVertexMap in insertion order
  Then(Dedup(corners), LAMBDA kept :
  Then(Flat(LAMBDA k : done.vertices[kept[k] + 1], 1, Len(kept)), LAMBDA newVertices :
  Then([n \in 1..Len(corners) |-> IndexOf(kept, corners[n]) - 1], LAMBDA newIndices :
  LET newUvs ==
        Flat(LAMBDA k : LET uv == Uv(geometry.uvs, kept[k])
                        IN <<IF uv[1] = Undefined THEN 0 ELSE uv[1],
                             IF uv[2] = Undefined THEN 0 ELSE uv[2]>>,
             1, Len(kept))
      \* the sum of the cross products of the triangles around new vertex i
      NormalSum(i) ==
        LET Term(n, c) ==
              IF newIndices[n] = i
              THEN LET tri == Triangle(newIndices, (n - 1) \div 3)
                   IN vec3Cross(vec3Sub(Vec(newVertices, tri[2]), Vec(newVertices, tri[1])),
                                vec3Sub(Vec(newVertices, tri[3]), Vec(newVertices, tri[1])))[c]
              ELSE 0
        IN <<SumTo(LAMBDA n : Term(n, 1), 1, Len(newIndices)),
             SumTo(LAMBDA n : Term(n, 2), 1, Len(newIndices)),
             SumTo(LAMBDA n : Term(n, 3), 1, Len(newIndices))>>
  IN Then(Flat(LAMBDA i : vec3Normalize(NormalSum(i)), 0, Len(kept) - 1), LAMBDA newNormals :
       ReturnNew(mesh, NewGeometry(geometry.id, newVertices, newNormals, newUvs, newIndices,
                                   BuildEdges(newIndices),
                                   BuildFaces(newIndices, newNormals))))))))

\* the lists decimateCollapse copies out of the geometry before its loop
CollapseStart(geometry) ==
  Then(BuildEdges(geometry.indices), LAMBDA built :
    [vertices |-> [i \in 1..geometry.vertexCount |-> Vec(geometry.vertices, i - 1)],
     faces |-> [t \in 1..TriangleCount(geometry.indices) |-> Triangle(geometry.indices, t - 1)],
     edges |-> [k \in 1..Len(built) |-> <<built[k].a, built[k].b>>],
     removed |-> {}])

targetFaceCount(geometry, ratioNum, ratioDen) ==
  Max(4, (TriangleCount(geometry.indices) * ratioNum) \div ratioDen)

decimateCollapse(mesh, ratioNum, ratioDen, pick) ==
  Then(CollapseStart(mesh.geometry), LAMBDA s :
  Then(CollapseLoop(s.vertices, s.faces, s.edges, s.removed,
                    targetFaceCount(mesh.geometry, ratioNum, ratioDen), pick), LAMBDA done :
    RebuildCollapsed(mesh, done)))

decimatePlanar(mesh, ratioNum, ratioDen, pick) == decimateCollapse(mesh, ratioNum, ratioDen, pick)

decimateUnsubdivide(mesh, ratioNum, ratioDen, pick) ==
  decimateCollapse(mesh, ratioNum, ratioDen, pick)

\* decimate without the early return of ratio >= 1
decimateUnguarded(mesh, ratioNum, ratioDen, mode, pick) ==
  IF mode = "collapse" THEN decimateCollapse(mesh, ratioNum, ratioDen, pick)
  ELSE IF mode = "planar" THEN decimatePlanar(mesh, ratioNum, ratioDen, pick)
  ELSE IF mode = "unsubdivide" THEN decimateUnsubdivide(mesh, ratioNum, ratioDen, pick)
  ELSE ReturnMesh(mesh)

\* ratio is ratioNum / ratioDen
decimate(mesh, ratioNum, ratioDen, mode, pick) ==
  IF ratioNum >= ratioDen THEN ReturnMesh(mesh)
  ELSE IF mode = "collapse" THEN decimateCollapse(mesh, ratioNum, ratioDen, pick)
  ELSE IF mode = "planar" THEN decimatePlanar(mesh, ratioNum, ratioDen, pick)
  ELSE IF mode = "unsubdivide" THEN decimateUnsubdivide(mesh, ratioNum, ratioDen, pick)
  ELSE ReturnMesh(mesh)

(***************************************************************************)
(* Boolean.  A plane is kept as an integer normal n (not normalised) and   *)
(* w = n . a: the side of a point and the crossing point of an edge do not *)
(* depend on the length of n.  A node of a BSP tree holds its children as  *)
(* lists of length 0 (no child) or 1.                                      *)
(***************************************************************************)
COPLANAR == 0
FRONT == 1
BACK == 2
SPANNING == 3

planeFromPoints(a, b, c) ==
  LET n == vec3Cross(vec3Sub(b, a), vec3Sub(c, a))
  IN [normal |-> n, w |-> vec3Dot(n, a)]

vec3Flip(v) == <<-v[1], -v[2], -v[3]>>
planeFlip(plane) == [normal |-> vec3Flip(plane.normal), w |-> -plane.w]

classifyPoint(plane, point) ==
  LET t == vec3Dot(plane.normal, point) - plane.w
  IN IF t < 0 THEN BACK ELSE IF t > 0 THEN FRONT ELSE COPLANAR

\* what splitPolygon pushes into each of its four lists for one polygon
splitPolygon(plane, polygon) ==
  Then([i \in 1..Len(polygon.vertices) |-> classifyPoint(plane, polygon.vertices[i])],
       LAMBDA types :
  LET n == Len(polygon.vertices)
      polygonType ==
        IF \A i \in 1..n : types[i] = COPLANAR THEN COPLANAR
        ELSE IF \A i \in 1..n : types[i] # BACK THEN FRONT
        ELSE IF \A i \in 1..n : types[i] # FRONT THEN BACK
        ELSE SPANNING
      Crossing(i, j) ==
        vec3Lerp(polygon.vertices[i], polygon.vertices[j],
                 plane.w - vec3Dot(plane.normal, polygon.vertices[i]),
                 vec3Dot(plane.normal, vec3Sub(polygon.vertices[j], polygon.vertices[i])))
      Spans(i, j) == (types[i] = FRONT /\ types[j] = BACK) \/ (types[i] = BACK /\ types[j] = FRONT)
      f == Flat(LAMBDA i :
                  (IF types[i] # BACK THEN <<polygon.vertices[i]>> ELSE <<>>)
                  \o (IF Spans(i, (i % n) + 1) THEN <<Crossing(i, (i % n) + 1)>> ELSE <<>>),
                1, n)
      b == Flat(LAMBDA i :
                  (IF types[i] # FRONT THEN <<polygon.vertices[i]>> ELSE <<>>)
                  \o (IF Spans(i, (i % n) + 1) THEN <<Crossing(i, (i % n) + 1)>> ELSE <<>>),
                1, n)
      none == [coplanarFront |-> <<>>, coplanarBack |-> <<>>, front |-> <<>>, back |-> <<>>]
  IN IF polygonType = COPLANAR
     THEN IF vec3Dot(plane.normal, polygon.plane.normal) > 0
          THEN [none EXCEPT !.coplanarFront = <<polygon>>]
          ELSE [none EXCEPT !.coplanarBack = <<polygon>>]
     ELSE IF polygonType = FRONT THEN [none EXCEPT !.front = <<polygon>>]
     ELSE IF polygonType = BACK THEN [none EXCEPT !.back = <<polygon>>]
     ELSE [none EXCEPT
             !.front = IF Len(f) >= 3 THEN <<[vertices |-> f, plane |-> polygon.plane]>>
                       ELSE <<>>,
             !.back = IF Len(b) >= 3 THEN <<[vertices |-> b, plane |-> polygon.plane]>>
                      ELSE <<>>])

EmptyNode == [hasPlane |-> FALSE, plane |-> [normal |-> <<0, 0, 0>>, w |-> 0],
              front |-> <<>>, back |-> <<>>, polygons |-> <<>>]

RECURSIVE buildBSP(_)
buildBSP(polygons) ==
  IF Len(polygons) = 0 THEN EmptyNode
  ELSE
    Then([k \in 1..Len(polygons) |-> splitPolygon(polygons[1].plane, polygons[k])],
         LAMBDA parts :
    Then(Flat(LAMBDA k : parts[k].front, 1, Len(polygons)), LAMBDA front :
    Then(Flat(LAMBDA k : parts[k].back, 1, Len(polygons)), LAMBDA back :
      [hasPlane |-> TRUE, plane |-> polygons[1].plane,
       front |-> IF Len(front) > 0 THEN <<buildBSP(front)>> ELSE <<>>,
       back |-> IF Len(back) > 0 THEN <<buildBSP(back)>> ELSE <<>>,
       polygons |-> Flat(LAMBDA k : parts[k].coplanarFront \o parts[k].coplanarBack,
                         1, Len(polygons))])))

RECURSIVE invertBSP(_)
invertBSP(node) ==
  [hasPlane |-> node.hasPlane,
   plane |-> IF node.hasPlane THEN planeFlip(node.plane) ELSE node.plane,
   front |-> [k \in 1..Len(node.back) |-> invertBSP(node.back[k])],
   back |-> [k \in 1..Len(node.front) |-> invertBSP(node.front[k])],
   polygons |-> [k \in 1..Len(node.polygons) |->
                   [vertices |-> Reverse(node.polygons[k].vertices),
                    plane |-> planeFlip(node.polygons[k].plane)]]]

RECURSIVE clipPolygons(_, _)
\* a clip that keeps what lies behind a leaf of the tree
clipPolygonsKeepBack(node, polygons) ==
  IF ~node.hasPlane THEN polygons
  ELSE
    Then([k \in 1..Len(polygons) |-> splitPolygon(node.plane, polygons[k])], LAMBDA parts :
    Then(Flat(LAMBDA k : parts[k].coplanarFront \o parts[k].front, 1, Len(polygons)),
         LAMBDA front :
    Then(Flat(LAMBDA k : parts[k].coplanarBack \o parts[k].back, 1, Len(polygons)),
         LAMBDA back :
      (IF Len(node.front) > 0 THEN clipPolygons(node.front[1], front) ELSE front)
      \o (IF Len(node.back) > 0 THEN clipPolygons(node.back[1], back) ELSE back))))

clipPolygons(node, polygons) ==
  IF ~node.hasPlane THEN polygons
  ELSE
    Then([k \in 1..Len(polygons) |-> splitPolygon(node.plane, polygons[k])], LAMBDA parts :
    Then(Flat(LAMBDA k : parts[k].coplanarFront \o parts[k].front, 1, Len(polygons)),
         LAMBDA front :
    Then(Flat(LAMBDA k : parts[k].coplanarBack \o parts[k].back, 1, Len(polygons)),
         LAMBDA back :
      (IF Len(node.front) > 0 THEN clipPolygons(node.front[1], front) ELSE front)
      \o (IF Len(node.back) > 0 THEN clipPolygons(node.back[1], back) ELSE <<>>))))

RECURSIVE clipTo(_, _)
clipTo(a, b) ==
  [a EXCEPT !.polygons = clipPolygons(b, a.polygons),
            !.front = [k \in 1..Len(a.front) |-> clipTo(a.front[k], b)],
            !.back = [k \in 1..Len(a.back) |-> clipTo(a.back[k], b)]]

RECURSIVE allPolygons(_)
allPolygons(node) ==
  node.polygons
  \o (IF Len(node.front) > 0 THEN allPolygons(node.front[1]) ELSE <<>>)
  \o (IF Len(node.back) > 0 THEN allPolygons(node.back[1]) ELSE <<>>)

RECURSIVE mergeBSP(_, _)
mergeBSP(a, polygons) ==
  IF ~a.hasPlane /\ Len(polygons) = 0 THEN a
  ELSE
    Then(IF a.hasPlane THEN a.plane ELSE polygons[1].plane, LAMBDA plane :
    Then([k \in 1..Len(polygons) |-> splitPolygon(plane, polygons[k])], LAMBDA parts :
    Then(Flat(LAMBDA k : parts[k].front, 1, Len(polygons)), LAMBDA front :
    Then(Flat(LAMBDA k : parts[k].back, 1, Len(polygons)), LAMBDA back :
      LET Child(side) == IF Len(side) > 0 THEN side[1] ELSE EmptyNode
      IN [hasPlane |-> TRUE, plane |-> plane,
          front |-> IF Len(front) > 0 THEN <<mergeBSP(Child(a.front), front)>> ELSE a.front,
          back |-> IF Len(back) > 0 THEN <<mergeBSP(Child(a.back), back)>> ELSE a.back,
          polygons |-> a.polygons
                       \o Flat(LAMBDA k : parts[k].coplanarFront \o parts[k].coplanarBack,
                               1, Len(polygons))]))))

\* Math.cos and Math.sin of a rotation given in quarter turns
Cos4(q) == <<1, 0, -1, 0>>[(q % 4) + 1]
Sin4(q) == <<0, 1, 0, -1>>[(q % 4) + 1]

applyTransform(transform, v) ==
  LET x == v[1] * transform.scale[1]
      y == v[2] * transform.scale[2]
      z == v[3] * transform.scale[3]
      rotation == transform.rotation
      y1 == y * Cos4(rotation[1]) - z * Sin4(rotation[1])
      z1 == y * Sin4(rotation[1]) + z * Cos4(rotation[1])
      x1 == x * Cos4(rotation[2]) + z1 * Sin4(rotation[2])
      z2 == -x * Sin4(rotation[2]) + z1 * Cos4(rotation[2])
      x2 == x1 * Cos4(rotation[3]) - y1 * Sin4(rotation[3])
      y2 == x1 * Sin4(rotation[3]) + y1 * Cos4(rotation[3])
  IN <<x2 + transform.position[1], y2 + transform.position[2], z2 + transform.position[3]>>

meshToPolygons(mesh) ==
  [t \in 1..TriangleCount(mesh.geometry.indices) |->
     LET tri == Triangle(mesh.geometry.indices, t - 1)
         v0 == applyTransform(mesh.transform, Vec(mesh.geometry.vertices, tri[1]))
         v1 == applyTransform(mesh.transform, Vec(mesh.geometry.vertices, tri[2]))
         v2 == applyTransform(mesh.transform, Vec(mesh.geometry.vertices, tri[3]))
     IN [vertices |-> <<v0, v1, v2>>, plane |-> planeFromPoints(v0, v1, v2)]]

\* every triangle of the fan of every polygon gets three vertices of its own
polygonsToGeometry(polygons) ==
  LET Fan(p) ==
        Flat(LAMBDA i : <<p.vertices[1], p.vertices[i + 1], p.vertices[i + 2]>>,
             1, Len(p.vertices) - 2)
  IN
  Then(Flat(LAMBDA k : Fan(polygons[k]), 1, Len(polygons)), LAMBDA corners :
  Then(Flat(LAMBDA k : Flat(LAMBDA c : vec3Normalize(polygons[k].plane.normal),
                            1, Len(Fan(polygons[k]))),
            1, Len(polygons)), LAMBDA normals :
  Then([k \in 1..Len(corners) |-> k - 1], LAMBDA indices :
    LET vertices == Flat(LAMBDA k : corners[k], 1, Len(corners))
        uvs == Flat(LAMBDA k : <<0, 0>>, 1, Len(corners))
    IN NewGeometry("geo-now", vertices, normals, uvs, indices,
                   BuildEdges(indices), BuildFaces(indices, normals)))))

boolean(mesh, operation, target) ==
  Then(meshToPolygons(mesh), LAMBDA aPolygons :
  Then(buildBSP(aPolygons), LAMBDA a :
  Then(buildBSP(meshToPolygons(target)), LAMBDA b :
  LET union ==
        Then(clipTo(a, b), LAMBDA a1 :
        Then(clipTo(b, a1), LAMBDA b1 :
        Then(invertBSP(clipTo(invertBSP(b1), a1)), LAMBDA b2 :
          allPolygons(mergeBSP(a1, allPolygons(b2))))))
      difference ==
        Then(clipTo(invertBSP(a), b), LAMBDA a1 :
        Then(clipTo(b, a1), LAMBDA b1 :
        Then(invertBSP(clipTo(invertBSP(b1), a1)), LAMBDA b2 :
          allPolygons(invertBSP(mergeBSP(a1, allPolygons(b2)))))))
      intersect ==
        Then(invertBSP(a), LAMBDA a1 :
        Then(invertBSP(clipTo(b, a1)), LAMBDA b1 :
        Then(clipTo(a1, b1), LAMBDA a2 :
        Then(clipTo(b1, a2), LAMBDA b2 :
          allPolygons(invertBSP(mergeBSP(a2, allPolygons(b2))))))))
      resultPolygons ==
        IF operation = "union" THEN union
        ELSE IF operation = "difference" THEN difference
        ELSE IF operation = "intersect" THEN intersect
        ELSE aPolygons
  IN Then(resultPolygons, LAMBDA polygons :
       [threw |-> FALSE, geometry |-> polygonsToGeometry(polygons),
        transform |-> IdentityTransform, alias |-> {}]))))

\* the meshes a boolean is taken against
Targets ==
  {createPlane(1, 1), Bipyramid,
   [createPlane(1, 1) EXCEPT !.transform = [position |-> <<0, 1, 0>>,
                                            rotation |-> <<1, 0, 0>>,
                                            scale |-> <<1, 2, 1>>]]}

(***************************************************************************)
(* The sculpt engine.  A length is a number of grid steps, a hundred to the *)
(* program's 1.0; a strength, a falloff factor and a weight are fractions  *)
(* [num, den].                                                             *)
(***************************************************************************)
Frac(num, den) == [num |-> num, den |-> den]

BrushTypes == {"grab", "smooth", "clay", "crease", "inflate", "flatten", "pinch"}

Brush(type, radius, strength, falloff, autoSmooth) ==
  [type |-> type, radius |-> radius, strength |-> strength, falloff |-> falloff,
   invert |-> FALSE, autoSmooth |-> autoSmooth]

BRUSH_PRESETS ==
  [type \in BrushTypes |->
     CASE type = "grab" -> Brush(type, 50, Frac(1, 1), "smooth", Frac(0, 1))
       [] type = "smooth" -> Brush(type, 30, Frac(1, 2), "smooth", Frac(0, 1))
       [] type = "clay" -> Brush(type, 40, Frac(3, 5), "smooth", Frac(1, 10))
       [] type = "crease" -> Brush(type, 20, Frac(7, 10), "sharp", Frac(0, 1))
       [] type = "inflate" -> Brush(type, 40, Frac(1, 2), "smooth", Frac(1, 20))
       [] type = "flatten" -> Brush(type, 50, Frac(3, 5), "smooth", Frac(0, 1))
       [] type = "pinch" -> Brush(type, 30, Frac(1, 2), "linear", Frac(1, 10))]

createBrush(type) == BRUSH_PRESETS[type]

\* the smooth curve whatever the falloff asked for
calculateFalloffSmoothOnly(distance, radius, falloff) ==
  LET tn == Max(0, Min(radius, distance))
      cube(x) == x * x * x
  IN Frac(cube(radius) - (3 * tn * tn * radius - 2 * cube(tn)), cube(radius))

\* the factor for a vertex at `distance` of the hit point; t is tn / radius
calculateFalloff(distance, radius, falloff) ==
  LET tn == Max(0, Min(radius, distance))
      cube(x) == x * x * x
  IN CASE falloff = "smooth" ->
            Frac(cube(radius) - (3 * tn * tn * radius - 2 * cube(tn)), cube(radius))
       [] falloff = "sharp" -> Frac(cube(radius - tn), cube(radius))
       [] falloff = "linear" -> Frac(radius - tn, radius)
       [] falloff = "constant" -> IF tn < radius THEN Frac(1, 1) ELSE Frac(0, 1)
       [] OTHER -> Frac(radius - tn, radius)

\* the vertices within radius of hitPoint, in index order, with their distance
getAffectedVertices(hitPoint, vertices, radius) ==
  Flat(LAMBDA i :
         LET distSq == vec3DistSq(Vec(vertices, i), hitPoint)
         IN IF distSq <= radius * radius
            THEN <<[index |-> i, distance |-> Sqrt(distSq)]>>
            ELSE <<>>,
       0, (Len(vertices) \div 3) - 1)

\* buf with vertex i set to v
SetVec(buf, i, v) ==
  [k \in 1..Len(buf) |->
     IF k > 3 * i /\ k <= 3 * i + 3 THEN v[k - 3 * i] ELSE buf[k]]

\* the mesh with its vertex buffer written in place
WithVertices(m, vertices) == [m EXCEPT !.geometry.vertices = vertices]

calculateSmoothOffset(m, vertexIndex, weight) ==
  LET vertices == m.geometry.vertices
      edges == m.geometry.edges
      neighbors ==
        Flat(LAMBDA n :
               (IF edges[n].a = vertexIndex THEN <<edges[n].b>> ELSE <<>>)
               \o (IF edges[n].b = vertexIndex THEN <<edges[n].a>> ELSE <<>>),
             1, Len(edges))
      avg(c) == Quot(SumTo(LAMBDA n : At(vertices, 3 * neighbors[n] + c), 1, Len(neighbors)),
                     Len(neighbors))
      v == Vec(vertices, vertexIndex)
  IN IF Len(neighbors) = 0 THEN <<0, 0, 0>>
     ELSE vec3Scale(<<avg(0) - v[1], avg(1) - v[2], avg(2) - v[3]>>, weight.num, weight.den)

calculateFlattenOffset(m, vertexIndex, hitPoint, affected, weight) ==
  LET normals == m.geometry.normals
      sum(c) == SumTo(LAMBDA k : At(normals, 3 * affected[k].index + c), 1, Len(affected))
      avgNormal == vec3Normalize(<<sum(0), sum(1), sum(2)>>)
      toVertex == vec3Sub(Vec(m.geometry.vertices, vertexIndex), hitPoint)
      dist == vec3Dot(toVertex, avgNormal)
  IN vec3Scale(avgNormal, -Quot(dist * weight.num, weight.den), NormalScale * NormalScale)

\* null, for the engine's mesh, its snapshot and the brush's lastPosition
NoMesh == [id |-> "null"]
Null == <<>>

\* the engine after its constructor
NewEngine ==
  [mesh |-> NoMesh,
   originalVertices |-> Null,
   brush |-> [settings |-> Brush("grab", 50, Frac(1, 1), "smooth", Frac(0, 1)),
              isActive |-> FALSE,
              lastPosition |-> Null,
              accumulatedDelta |-> <<0, 0, 0>>],
   symmetry |-> [x |-> FALSE, y |-> FALSE, z |-> FALSE]]

setMesh(e, m) == [e EXCEPT !.mesh = m, !.originalVertices = m.geometry.vertices]

\* Object.assign(this.brush.settings, settings): the fields given overwrite
setBrushSettings(e, settings) ==
  [e EXCEPT !.brush.settings =
     [k \in DOMAIN @ |-> IF k \in DOMAIN settings THEN settings[k] ELSE @[k]]]

setSymmetry(e, axis, enabled) == [e EXCEPT !.symmetry[axis] = enabled]

\* a beginStroke that takes no snapshot
beginStrokeNoSnapshot(e, hitPoint) ==
  [e EXCEPT !.brush.isActive = TRUE,
            !.brush.lastPosition = hitPoint,
            !.brush.accumulatedDelta = <<0, 0, 0>>]

beginStroke(e, hitPoint) ==
  [e EXCEPT !.brush.isActive = TRUE,
            !.brush.lastPosition = hitPoint,
            !.brush.accumulatedDelta = <<0, 0, 0>>,
            !.originalVertices = IF e.mesh # NoMesh THEN e.mesh.geometry.vertices ELSE @]

\* the offset applyBrush adds to vertex `index`, by brush type
BrushOffset(m, settings, hitPoint, delta, affected, index, weight) ==
  LET v == Vec(m.geometry.vertices, index)
      n == Vec(m.geometry.normals, index)
      type == settings.type
  IN CASE type = "grab" -> vec3Scale(delta, weight.num, weight.den)
       [] type = "smooth" -> calculateSmoothOffset(m, index, weight)
       [] type = "clay" ->
            vec3Scale(n, weight.num * settings.radius * 3, weight.den * 10 * NormalScale)
       [] type = "crease" ->
            vec3Add(vec3Scale(vec3Sub(hitPoint, v), weight.num * 3, weight.den * 20),
                    vec3Scale(n, -(weight.num * 3), weight.den * 20 * NormalScale))
       [] type = "inflate" ->
            vec3Scale(n, weight.num * settings.radius, weight.den * 5 * NormalScale)
       [] type = "flatten" -> calculateFlattenOffset(m, index, hitPoint, affected, weight)
       [] type = "pinch" -> vec3Scale(vec3Sub(hitPoint, v), weight.num, weight.den * 5)
       [] OTHER -> <<0, 0, 0>>

RECURSIVE BrushLoop(_, _, _, _, _, _, _)
\* the loop of applyBrush from the k-th affected vertex on: each vertex is read
\* and written in the mesh's own buffer
BrushLoop(m, settings, hitPoint, delta, invert, affected, k) ==
  IF k > Len(affected) THEN m
  ELSE LET index == affected[k].index
           falloff == calculateFalloff(affected[k].distance, settings.radius, settings.falloff)
           weight == Frac(falloff.num * settings.strength.num * invert,
                          falloff.den * settings.strength.den)
           offset == BrushOffset(m, settings, hitPoint, delta, affected, index, weight)
           moved == vec3Add(Vec(m.geometry.vertices, index), offset)
       IN Then(WithVertices(m, SetVec(m.geometry.vertices, index, moved)),
               LAMBDA next :
                 BrushLoop(next, settings, hitPoint, delta, invert, affected, k + 1))

applyBrush(e, hitPoint, delta, invert) ==
  IF e.mesh = NoMesh THEN e
  ELSE LET settings == e.brush.settings
           affected == getAffectedVertices(hitPoint, e.mesh.geometry.vertices, settings.radius)
       IN [e EXCEPT !.mesh = BrushLoop(e.mesh, settings, hitPoint, delta, invert, affected, 1)]

\* v with the sign of one coordinate changed
FlipAxis(v, axis) == [v EXCEPT ![axis] = -v[axis]]

updateStroke(e, hitPoint, delta) ==
  IF ~e.brush.isActive \/ e.mesh = NoMesh THEN e
  ELSE LET invert == IF e.brush.settings.invert THEN -1 ELSE 1
           mirrored(on, axis, e0) ==
             IF on
             THEN applyBrush(e0, FlipAxis(hitPoint, axis), FlipAxis(delta, axis), invert)
             ELSE e0
       IN Then(applyBrush(e, hitPoint, delta, invert), LAMBDA e0 :
          Then(mirrored(e.symmetry.x, 1, e0), LAMBDA e1 :
          Then(mirrored(e.symmetry.y, 2, e1), LAMBDA e2 :
          Then(mirrored(e.symmetry.z, 3, e2), LAMBDA e3 :
            [e3 EXCEPT !.brush.lastPosition = hitPoint,
                       !.brush.accumulatedDelta = vec3Add(@, delta)]))))

RECURSIVE SmoothLoop(_, _, _, _, _)
SmoothLoop(m, radius, strength, affected, k) ==
  IF k > Len(affected) THEN m
  ELSE LET index == affected[k].index
           falloff == calculateFalloff(affected[k].distance, radius, "smooth")
           offset == calculateSmoothOffset(m, index,
                       Frac(falloff.num * strength.num, falloff.den * strength.den))
           moved == vec3Add(Vec(m.geometry.vertices, index), offset)
       IN Then(WithVertices(m, SetVec(m.geometry.vertices, index, moved)),
               LAMBDA next : SmoothLoop(next, radius, strength, affected, k + 1))

applySmooth(e, center, strength) ==
  IF e.mesh = NoMesh THEN e
  ELSE LET radius == e.brush.settings.radius
           affected == getAffectedVertices(center, e.mesh.geometry.vertices, radius)
       IN [e EXCEPT !.mesh = SmoothLoop(e.mesh, radius, strength, affected, 1)]

\* each vertex normal: the sum of the cross products of the triangle corners that
\* name the vertex, normalised when it is not zero
recalculateNormals(e) ==
  IF e.mesh = NoMesh THEN e
  ELSE LET vertices == e.mesh.geometry.vertices
           indices == e.mesh.geometry.indices
           tris == [t \in 1..TriangleCount(indices) |-> Triangle(indices, t - 1)]
           n == [t \in 1..TriangleCount(indices) |->
                   vec3Cross(vec3Sub(Vec(vertices, tris[t][2]), Vec(vertices, tris[t][1])),
                             vec3Sub(Vec(vertices, tris[t][3]), Vec(vertices, tris[t][1])))]
           corners(t, i) == Cardinality({j \in 1..3 : tris[t][j] = i})
           sum(i, c) == SumTo(LAMBDA t : corners(t, i) * n[t][c], 1, TriangleCount(indices))
       IN [e EXCEPT !.mesh.geometry.normals =
             Flat(LAMBDA i : vec3Normalize(<<sum(i, 1), sum(i, 2), sum(i, 3)>>),
                  0, (Len(vertices) \div 3) - 1)]

endStroke(e) ==
  IF ~e.brush.isActive \/ e.mesh = NoMesh THEN e
  ELSE LET smoothed == IF e.brush.settings.autoSmooth.num > 0
                       THEN applySmooth(e, e.brush.lastPosition, e.brush.settings.autoSmooth)
                       ELSE e
       IN Then(smoothed, LAMBDA e0 :
            [recalculateNormals(e0) EXCEPT !.brush.isActive = FALSE,
                                           !.brush.lastPosition = Null])

undoStroke(e) ==
  IF e.mesh = NoMesh \/ e.originalVertices = Null THEN e
  ELSE Then([e EXCEPT !.mesh.geometry.vertices = e.originalVertices], recalculateNormals)

\* what the caller of the engine has done so far: the last call (with the
\* arguments of an updateStroke), the positions the bound mesh had before that
\* call, whether the last of beginStroke and endStroke called was beginStroke
\* ("begun") or endStroke ("ended"), the positions the bound mesh had at the
\* latest beginStroke or setMesh, and the number of calls that moved vertices
NoTrace ==
  [op |-> "new", args |-> <<>>, was |-> Null, stroke |-> "none", marked |-> Null,
   moves |-> 0]

(***************************************************************************)
(* Raycasting.  A ray has whole coordinates; the parameters u, v and t of  *)
(* the intersection test are numerators over the common denominator |a|,   *)
(* which is a whole number, so |a| < EPSILON is a = 0 and t > EPSILON is   *)
(* t > 0.                                                                  *)
(***************************************************************************)
transformPoint(p, t) == applyTransform(t, p)

\* hit: false, distance: Infinity
NoIntersection == [hit |-> FALSE]

rayTriangleIntersect(ray, v0, v1, v2) ==
  LET edge1 == vec3Sub(v1, v0)
      edge2 == vec3Sub(v2, v0)
      h == vec3Cross(ray.direction, edge2)
      a == vec3Dot(edge1, h)
      sign == IF a < 0 THEN -1 ELSE 1
      den == Abs(a)
      s == vec3Sub(ray.origin, v0)
      u == sign * vec3Dot(s, h)
      q == vec3Cross(s, edge1)
      v == sign * vec3Dot(ray.direction, q)
      t == sign * vec3Dot(edge2, q)
  IN IF a = 0 THEN NoIntersection
     ELSE IF u < 0 \/ u > den THEN NoIntersection
     ELSE IF v < 0 \/ u + v > den THEN NoIntersection
     ELSE IF t > 0
       THEN [hit |-> TRUE, distance |-> Frac(t, den),
             point |-> [num |-> <<ray.origin[1] * den + ray.direction[1] * t,
                                  ray.origin[2] * den + ray.direction[2] * t,
                                  ray.origin[3] * den + ray.direction[3] * t>>,
                        den |-> den]]
     ELSE NoIntersection

\* the fraction f is less than the fraction g (denominators positive)
FracLess(f, g) == f.num * g.den < g.num * f.den

\* null, in the place of a RaycastHit
NoRaycastHit == [meshId |-> "null"]

\* the triangle t of the mesh, as the ray meets it in the world
TriangleHit(ray, mesh, t) ==
  LET tri == Triangle(mesh.geometry.indices, t)
  IN rayTriangleIntersect(ray,
                          transformPoint(Vec(mesh.geometry.vertices, tri[1]), mesh.transform),
                          transformPoint(Vec(mesh.geometry.vertices, tri[2]), mesh.transform),
                          transformPoint(Vec(mesh.geometry.vertices, tri[3]), mesh.transform))

RECURSIVE RaycastMeshLoop(_, _, _, _)
\* the loop over the triangles of raycastMesh, from triangle t on
RaycastMeshLoop(ray, mesh, t, closestHit) ==
  IF t >= TriangleCount(mesh.geometry.indices) THEN closestHit
  ELSE Then(TriangleHit(ray, mesh, t), LAMBDA result :
         RaycastMeshLoop(ray, mesh, t + 1,
           IF result.hit /\ (closestHit = NoRaycastHit
                             \/ FracLess(result.distance, closestHit.distance))
           THEN [meshId |-> mesh.id, distance |-> result.distance,
                 point |-> result.point, faceIndex |-> t]
           ELSE closestHit))

\* a raycastMesh that looks at hidden meshes too
raycastMeshSeesHidden(ray, mesh) == RaycastMeshLoop(ray, mesh, 0, NoRaycastHit)

raycastMesh(ray, mesh) ==
  IF ~mesh.visible THEN NoRaycastHit ELSE RaycastMeshLoop(ray, mesh, 0, NoRaycastHit)

RECURSIVE RaycastLoop(_, _, _, _)
\* the loop over the meshes of raycast, from mesh k on
RaycastLoop(ray, meshes, k, closestHit) ==
  IF k > Len(meshes) THEN closestHit
  ELSE Then(raycastMesh(ray, meshes[k]), LAMBDA hit :
         RaycastLoop(ray, meshes, k + 1,
           IF hit # NoRaycastHit /\ (closestHit = NoRaycastHit
                                     \/ FracLess(hit.distance, closestHit.distance))
           THEN hit ELSE closestHit))

raycast(ray, meshes) == RaycastLoop(ray, meshes, 1, NoRaycastHit)

(***************************************************************************)
(* The modifiers as a state machine.  A caller holds a mesh and a boolean  *)
(* target, and calls one modifier after another on them.  `given` is what  *)
(* the two arguments held when the last call was made, `out` what the call *)
(* returned.  A buffer of the result that is the argument's own buffer     *)
(* (out.alias) is one object: what the call stored in it is in the         *)
(* argument afterwards.                                                    *)
(***************************************************************************)
VARIABLES mesh, target, given, out, call, engine, trace

vars == <<mesh, target, given, out, call, engine, trace>>

\* sequences over S of length at most n
SeqsUpTo(S, n) == UNION {[1..k -> S] : k \in 0..n}

\* the argument after the call
AfterCall(arg, R) ==
  [arg EXCEPT !.geometry =
     [f \in DOMAIN arg.geometry |->
        IF f \in R.alias THEN R.geometry[f] ELSE arg.geometry[f]]]

Called(op, args, R) ==
  /\ given' = [mesh |-> mesh.geometry, target |-> target.geometry]
  /\ out' = R
  /\ call' = [op |-> op, args |-> args]
  /\ mesh' = AfterCall(mesh, R)
  /\ UNCHANGED <<engine, trace>>

Init ==
  /\ mesh \in Meshes
  /\ target = createPlane(1, 1)
  /\ given = [mesh |-> mesh.geometry, target |-> target.geometry]
  /\ out = ReturnMesh(mesh)
  /\ call = [op |-> "none", args |-> <<>>]
  /\ engine = NewEngine
  /\ trace = NoTrace

\* the caller takes up another mesh
Load ==
  /\ call.op # "none"
  /\ mesh' \in Meshes
  /\ target' = createPlane(1, 1)
  /\ given' = [mesh |-> mesh'.geometry, target |-> target'.geometry]
  /\ out' = ReturnMesh(mesh')
  /\ call' = [op |-> "none", args |-> <<>>]
  /\ UNCHANGED <<engine, trace>>

OrientedEdges(m) ==
  {<<m.geometry.edges[n].a, m.geometry.edges[n].b>> : n \in 1..Len(m.geometry.edges)}
  \cup {<<m.geometry.edges[n].b, m.geometry.edges[n].a>> : n \in 1..Len(m.geometry.edges)}

\* the place of an edge in the edge list of the mesh
EdgeRank(m, e) ==
  CHOOSE n \in 1..Len(m.geometry.edges) :
    <<m.geometry.edges[n].a, m.geometry.edges[n].b>> = EdgeKey(e[1], e[2])

\* selections of different edges of the mesh in edge list order, each walked in
\* either direction
EdgeSelectionsUpTo(m, n) ==
  {s \in SeqsUpTo(OrientedEdges(m), n) :
     \A i, j \in 1..Len(s) : i < j => EdgeRank(m, s[i]) < EdgeRank(m, s[j])}

EdgeSelections(m) == EdgeSelectionsUpTo(m, MaxSelected)

Mirror ==
  /\ call.op = "none"
  /\ \E axisIdx \in 0..2, merge \in BOOLEAN, flipNormals \in BOOLEAN :
    /\ Called("mirror", <<axisIdx, merge, flipNormals>>,
              mirror(mesh, axisIdx, merge, 1, flipNormals))
    /\ UNCHANGED target

\* selections name faces of the mesh, or the first index past its last face
Extrude ==
  /\ call.op = "none"
  /\ \E selectedFaces \in SeqsUpTo(0..Len(mesh.geometry.faces), MaxSelected),
     distance \in {2}, useNormals \in BOOLEAN :
    /\ Called("extrude", <<selectedFaces, distance, useNormals>>,
              extrude(mesh, selectedFaces, distance, useNormals))
    /\ UNCHANGED target

LoopCut ==
  /\ call.op = "none"
  /\ \E selectedEdges \in EdgeSelectionsUpTo(mesh, MaxCutEdges),
     numberOfCuts \in 0..MaxCuts :
    /\ Called("loopCut", <<selectedEdges, numberOfCuts>>,
              loopCut(mesh, selectedEdges, numberOfCuts))
    /\ UNCHANGED target

Array ==
  /\ call.op = "none"
  /\ \E count \in 0..MaxCount, offset \in {<<1, 0, 0>>, <<4, 0, 0>>},
     offsetType \in {"constant", "relative"}, mergeVertices \in BOOLEAN,
     mergeThreshold \in {1, 5} :
    /\ Called("array", <<count, offset, offsetType, mergeVertices, mergeThreshold>>,
              array(mesh, count, offset, offsetType, mergeVertices, mergeThreshold))
    /\ UNCHANGED target

Bevel ==
  /\ call.op = "none"
  /\ \E selectedEdges \in EdgeSelections(mesh), amount \in {2} :
    /\ Called("bevel", <<selectedEdges, amount>>, bevel(mesh, selectedEdges, amount))
    /\ UNCHANGED target

Solidify ==
  /\ call.op = "none"
  /\ \E thickness \in {2}, offset \in {-1, 0, 1}, evenThickness \in BOOLEAN,
     fillRim \in BOOLEAN :
    /\ Called("solidify", <<thickness, offset, evenThickness, fillRim>>,
              solidify(mesh, thickness, offset, evenThickness, fillRim))
    /\ UNCHANGED target

Subdivide ==
  /\ call.op = "none"
  /\ \E iterations \in 0..MaxIterations, smooth \in BOOLEAN :
    /\ Called("subdivide", <<iterations, smooth>>, subdivide(mesh, iterations, smooth))
    /\ UNCHANGED target

KnifeCut ==
  /\ call.op = "none"
  /\ \E points \in SeqsUpTo(KnifePoints, MaxPoints) \cup {InPlanePath, TwoCutPath},
       throughCut \in BOOLEAN :
    /\ Called("knifeCut", <<points, throughCut>>, knifeCut(mesh, points, throughCut))
    /\ UNCHANGED target

BridgeEdgeLoops ==
  /\ call.op = "none"
  /\ \E loop1 \in LoopChoices(mesh), loop2 \in LoopChoices(mesh), twist \in -1..1,
     segments \in 1..MaxSegments, smoothness \in 0..1,
     blend \in {"linear", "smooth", "sphere"} :
    /\ Called("bridgeEdgeLoops", <<loop1, loop2, twist, segments, smoothness, blend>>,
              bridgeEdgeLoops(mesh, loop1, loop2, twist, segments, smoothness, blend))
    /\ UNCHANGED target

Decimate ==
  /\ call.op = "none"
  /\ \E ratioNum \in 0..(RatioDen + 1), mode \in {"collapse", "planar", "unsubdivide", "none"},
     pick \in 0..(Len(mesh.geometry.edges) - 1) :
    /\ Called("decimate", <<ratioNum, mode, pick>>,
              decimate(mesh, ratioNum, RatioDen, mode, pick))
    /\ UNCHANGED target

Boolean ==
  /\ call.op = "none"
  /\ \E operation \in {"union", "difference", "intersect", "none"}, other \in Targets :
    /\ given' = [mesh |-> mesh.geometry, target |-> other.geometry]
    /\ out' = boolean(mesh, operation, other)
    /\ call' = [op |-> "boolean", args |-> <<operation>>]
    /\ mesh' = AfterCall(mesh, out')
    /\ target' = AfterCall(other, out')
    /\ UNCHANGED <<engine, trace>>

Next ==
  \/ Load
  \/ Mirror
  \/ Extrude
  \/ LoopCut
  \/ Array
  \/ Bevel
  \/ Solidify
  \/ Subdivide
  \/ KnifeCut
  \/ BridgeEdgeLoops
  \/ Decimate
  \/ Boolean

Spec == Init /\ [][Next]_vars

(***************************************************************************)
(* The sculpt engine as a state machine: one engine, called by one caller. *)
(***************************************************************************)
\* m with every position multiplied by k
Enlarged(m, k) ==
  [m EXCEPT !.geometry.vertices = [i \in 1..Len(@) |-> k * @[i]]]

\* m carried to another place of the scene
Moved(m, position) == [m EXCEPT !.transform.position = position]

SculptMeshes ==
  {Enlarged(createPlane(1, 1), 10), Enlarged(Bipyramid, 10),
   Moved(Enlarged(createPlane(1, 1), 10), <<40, 0, 0>>)}
HitPoints == {<<-20, 0, -20>>, <<0, 0, 0>>}
Deltas == {<<5, 10, 0>>}

\* the arguments of setBrushSettings: a preset, or some fields
SettingsChoices ==
  {createBrush(type) : type \in BrushTypes}
  \cup {[type |-> "grab", radius |-> 50, strength |-> Frac(1, 1), falloff |-> "linear",
         autoSmooth |-> Frac(0, 1)]}

SculptInit ==
  /\ mesh = createPlane(1, 1)
  /\ target = createPlane(1, 1)
  /\ given = [mesh |-> mesh.geometry, target |-> target.geometry]
  /\ out = ReturnMesh(mesh)
  /\ call = [op |-> "none", args |-> <<>>]
  /\ engine = NewEngine
  /\ trace = NoTrace

\* a call of the engine: e is the engine after it
Sculpted(op, args, e, stroke, marked, moves) ==
  /\ engine' = e
  /\ trace' = [op |-> op, args |-> args,
               was |-> IF engine.mesh # NoMesh THEN engine.mesh.geometry.vertices ELSE Null,
               stroke |-> stroke, marked |-> marked, moves |-> moves]
  /\ UNCHANGED <<mesh, target, given, out, call>>

SetMesh ==
  \E m \in SculptMeshes :
    Sculpted("setMesh", <<>>, setMesh(engine, m), trace.stroke,
             m.geometry.vertices, trace.moves)

\* the caller sets the brush up before the first updateStroke
SetBrushSettings ==
  /\ trace.moves = 0
  /\ \E settings \in SettingsChoices :
       Sculpted("setBrushSettings", <<>>, setBrushSettings(engine, settings),
                trace.stroke, trace.marked, trace.moves)

SetSymmetry ==
  /\ trace.moves = 0
  /\ \E axis \in {"x"}, enabled \in BOOLEAN :
       Sculpted("setSymmetry", <<>>, setSymmetry(engine, axis, enabled),
                trace.stroke, trace.marked, trace.moves)

BeginStroke ==
  \E hitPoint \in HitPoints :
    Sculpted("beginStroke", <<>>, beginStroke(engine, hitPoint), "begun",
             IF engine.mesh # NoMesh THEN engine.mesh.geometry.vertices ELSE trace.marked,
             trace.moves)

UpdateStroke ==
  /\ trace.moves < MaxMoves
  /\ \E hitPoint \in HitPoints, delta \in Deltas :
       Sculpted("updateStroke", <<hitPoint, delta>>, updateStroke(engine, hitPoint, delta),
                trace.stroke, trace.marked, trace.moves + 1)

\* an endStroke that smooths moves the mesh as an updateStroke does
EndStroke ==
  LET smooths == /\ engine.brush.isActive
                 /\ engine.mesh # NoMesh
                 /\ engine.brush.settings.autoSmooth.num > 0
  IN /\ smooths => trace.moves < MaxMoves
     /\ Sculpted("endStroke", <<>>, endStroke(engine), "ended", trace.marked,
                 IF smooths THEN trace.moves + 1 ELSE trace.moves)

UndoStroke ==
  Sculpted("undoStroke", <<>>, undoStroke(engine), trace.stroke, trace.marked, trace.moves)

SculptNext ==
  \/ SetMesh
  \/ SetBrushSettings
  \/ SetSymmetry
  \/ BeginStroke
  \/ UpdateStroke
  \/ EndStroke
  \/ UndoStroke

SculptSpec == SculptInit /\ [][SculptNext]_vars

(***************************************************************************)
(* Picking as a state machine: a caller arranges a scene and casts a ray   *)
(* at it.  `given.meshes` is the scene, `call` the raycast with its ray,   *)
(* `out` what raycast returned.                                            *)
(***************************************************************************)
MaxMeshes == 3         \* a scene holds at most MaxMeshes meshes

\* a floor, a floor above it, a hidden floor above both, and a solid to the side
SceneMeshes ==
  {[createPlane(1, 1) EXCEPT !.id = "floor"],
   [createPlane(1, 1) EXCEPT !.id = "shelf", !.transform.position = <<0, 2, 0>>],
   [createPlane(1, 1) EXCEPT !.id = "hidden", !.transform.position = <<0, 4, 0>>,
                             !.visible = FALSE],
   [Bipyramid EXCEPT !.id = "solid", !.transform.position = <<1, 0, 0>>,
                     !.transform.scale = <<1, 2, 1>>]}

Scenes ==
  {s \in SeqsUpTo(SceneMeshes, MaxMeshes) : \A i, j \in 1..Len(s) : i # j => s[i] # s[j]}

Rays ==
  {[origin |-> o, direction |-> d] :
     o \in {<<-1, 6, -1>>, <<1, 6, 1>>, <<7, 6, 0>>, <<0, 1, 0>>},
     d \in {<<0, -1, 0>>, <<0, 1, 0>>, <<0, -2, 0>>, <<-1, -1, 0>>}}

RayInit ==
  /\ mesh = createPlane(1, 1)
  /\ target = createPlane(1, 1)
  /\ given = [meshes |-> <<>>]
  /\ out = NoRaycastHit
  /\ call = [op |-> "none", args |-> <<>>]
  /\ engine = NewEngine
  /\ trace = NoTrace

\* the caller arranges the scene
Arrange ==
  /\ \E meshes \in Scenes : given' = [meshes |-> meshes]
  /\ out' = NoRaycastHit
  /\ call' = [op |-> "none", args |-> <<>>]
  /\ UNCHANGED <<mesh, target, engine, trace>>

Raycast ==
  /\ \E ray \in Rays :
       /\ out' = raycast(ray, given.meshes)
       /\ call' = [op |-> "raycast", args |-> <<ray>>]
  /\ UNCHANGED <<mesh, target, given, engine, trace>>

RayNext ==
  \/ Arrange
  \/ Raycast

RaySpec == RayInit /\ [][RayNext]_vars

(***************************************************************************)
(* decimateCollapse turn by turn: `mesh` is the mesh passed in, `given`    *)
(* its geometry and the ratio, `out` the working lists of the loop and,    *)
(* once rebuilt, the result.  The function runs to its end once entered.   *)
(***************************************************************************)
\* the bipyramid after a loop cut across edge 0-1 with no cuts asked for
ZeroCutBipyramid ==
  [Bipyramid EXCEPT !.geometry = loopCut(Bipyramid, <<<<0, 1>>>>, 0).geometry]

CollapseMeshes == {createPlane(2, 1), createPlane(2, 2), Bipyramid, PentagonFan, ZeroCutBipyramid}

NotCollapsing ==
  [pc |-> "idle", vertices |-> <<>>, faces |-> <<>>, edges |-> <<>>, removed |-> {},
   result |-> Null]

CollapseInit ==
  /\ mesh \in CollapseMeshes
  /\ target = createPlane(1, 1)
  /\ given = [mesh |-> mesh.geometry, ratioNum |-> 0]
  /\ out = NotCollapsing
  /\ call = [op |-> "none", args |-> <<>>]
  /\ engine = NewEngine
  /\ trace = NoTrace

\* decimateCollapse is entered: the copies of the lists are made
CollapseEnter ==
  /\ out.pc = "idle"
  /\ \E ratioNum \in 0..(RatioDen - 1) :
       /\ given' = [mesh |-> mesh.geometry, ratioNum |-> ratioNum]
       /\ call' = [op |-> "decimateCollapse", args |-> <<ratioNum>>]
  /\ out' = [(CollapseStart(mesh.geometry) @@ NotCollapsing) EXCEPT !.pc = "loop"]
  /\ UNCHANGED <<mesh, target, engine, trace>>

\* one turn of the while loop; the edge of least quadric error is some live edge
CollapseTurn ==
  /\ out.pc = "loop"
  /\ Len(out.faces) > targetFaceCount(given.mesh, given.ratioNum, RatioDen)
  /\ \E k \in LiveEdges(out.edges, out.removed) :
       out' = CollapseOnce(out.vertices, out.faces, out.edges, out.removed, out.edges[k])
              @@ out
  /\ UNCHANGED <<mesh, target, given, call, engine, trace>>

\* the loop is left: the target is reached or no candidate edge remains
CollapseExit ==
  /\ out.pc = "loop"
  /\ \/ Len(out.faces) <= targetFaceCount(given.mesh, given.ratioNum, RatioDen)
     \/ LiveEdges(out.edges, out.removed) = {}
  /\ out' = [out EXCEPT !.pc = "rebuild"]
  /\ UNCHANGED <<mesh, target, given, call, engine, trace>>

\* the geometry is rebuilt from the surviving faces
CollapseRebuild ==
  /\ out.pc = "rebuild"
  /\ out' = [out EXCEPT !.pc = "done",
                        !.result = RebuildCollapsed(mesh, [vertices |-> out.vertices,
                                                           faces |-> out.faces])]
  /\ UNCHANGED <<mesh, target, given, call, engine, trace>>

\* the caller takes the result and comes with another mesh
CollapseLeave ==
  /\ out.pc = "done"
  /\ mesh' \in CollapseMeshes
  /\ given' = [mesh |-> mesh'.geometry, ratioNum |-> 0]
  /\ out' = NotCollapsing
  /\ call' = [op |-> "none", args |-> <<>>]
  /\ UNCHANGED <<target, engine, trace>>

CollapseNext ==
  \/ CollapseEnter
  \/ CollapseTurn
  \/ CollapseExit
  \/ CollapseRebuild
  \/ CollapseLeave

\* a call that has begun is not suspended: the loop takes its next turn or is
\* left; the rebuild that follows has no loop of unknown length
CollapseSpec ==
  /\ CollapseInit
  /\ [][CollapseNext]_vars
  /\ WF_vars(CollapseTurn)
  /\ WF_vars(CollapseExit)

(***************************************************************************)
(* detectEdgeLoops.  A Set is kept as the list of its members in the order *)
(* they were added; the key of an edge is its EdgeKey.                     *)
(***************************************************************************)
\* adjacency.get(v): the neighbours of v in the order the edges add them
Adjacency(selectedEdges, v) ==
  Dedup(Flat(LAMBDA n : (IF selectedEdges[n][1] = v THEN <<selectedEdges[n][2]>> ELSE <<>>)
                        \o (IF selectedEdges[n][2] = v THEN <<selectedEdges[n][1]>> ELSE <<>>),
             1, Len(selectedEdges)))

RECURSIVE WalkLoop(_, _, _, _, _, _)
\* the while loop of detectEdgeLoops: loop and used when it is left
WalkLoop(selectedEdges, loop, current, prev, used, startA) ==
  IF current = startA THEN [loop |-> loop, used |-> used]
  ELSE
    LET neighbors == Adjacency(selectedEdges, current)
        open == {k \in 1..Len(neighbors) :
                   neighbors[k] # prev /\ EdgeKey(current, neighbors[k]) \notin used}
    IN IF Len(neighbors) = 0 \/ open = {}
       THEN [loop |-> Append(loop, current), used |-> used]
       ELSE LET next == neighbors[CHOOSE k \in open : \A j \in open : k <= j]
            IN WalkLoop(selectedEdges, Append(loop, current), next, current,
                        used \cup {EdgeKey(current, next)}, startA)

RECURSIVE DetectFrom(_, _, _, _)
\* the for loop over the selected edges, from the n-th on
DetectFrom(selectedEdges, n, loops, used) ==
  IF n > Len(selectedEdges) THEN loops
  ELSE
    LET startA == selectedEdges[n][1]
        startB == selectedEdges[n][2]
        key == EdgeKey(startA, startB)
    IN IF key \in used THEN DetectFrom(selectedEdges, n + 1, loops, used)
       ELSE LET walked == WalkLoop(selectedEdges, <<startA>>, startB, startA,
                                   used \cup {key}, startA)
            IN DetectFrom(selectedEdges, n + 1,
                          IF Len(walked.loop) >= 3 THEN Append(loops, walked.loop) ELSE loops,
                          walked.used)

detectEdgeLoops(geometry, selectedEdges) == DetectFrom(selectedEdges, 1, <<>>, {})

\* the most edges in a selection and the highest vertex index an edge names
MaxLoopEdges == 3
MaxLoopVertex == 3

SelectedEdgeLists ==
  SeqsUpTo((0..MaxLoopVertex) \X (0..MaxLoopVertex), MaxLoopEdges)

NoLoops == [loops |-> Null]

LoopsInit ==
  /\ mesh = createPlane(1, 1)
  /\ target = createPlane(1, 1)
  /\ given = [selectedEdges |-> <<>>]
  /\ out = NoLoops
  /\ call = [op |-> "none", args |-> <<>>]
  /\ engine = NewEngine
  /\ trace = NoTrace

\* the caller selects edges
SelectEdges ==
  /\ \E selectedEdges \in SelectedEdgeLists : given' = [selectedEdges |-> selectedEdges]
  /\ out' = NoLoops
  /\ call' = [op |-> "none", args |-> <<>>]
  /\ UNCHANGED <<mesh, target, engine, trace>>

DetectEdgeLoops ==
  /\ call.op = "none"
  /\ out' = [loops |-> detectEdgeLoops(mesh.geometry, given.selectedEdges)]
  /\ call' = [op |-> "detectEdgeLoops", args |-> <<given.selectedEdges>>]
  /\ UNCHANGED <<mesh, target, given, engine, trace>>

LoopsNext ==
  \/ SelectEdges
  \/ DetectEdgeLoops

LoopsSpec == LoopsInit /\ [][LoopsNext]_vars

(***************************************************************************)
(* Properties of the modifiers, checked under Spec.  In a state reached by *)
(* a call, `given` holds the geometries passed in, `out` what the operator *)
(* returned, and `call` the operator and its options.                      *)
(***************************************************************************)
\* the operator returned a mesh
Returned == call.op # "none" /\ ~out.threw
\* the operator returned a mesh of its own making
Worked == Returned /\ out.alias = {}

HasRepeatedIndex(tri) == tri[1] = tri[2] \/ tri[2] = tri[3] \/ tri[1] = tri[3]
Degenerate(g) ==
  \E t \in 0..(TriangleCount(g.indices) - 1) : HasRepeatedIndex(Triangle(g.indices, t))

\* the sides of the triangles of ix, as pairs <<a, b>> with a <= b
Sides(ix) ==
  {<<Min(tri[j], tri[(j % 3) + 1]), Max(tri[j], tri[(j % 3) + 1])>> :
     j \in 1..3, tri \in {Triangle(ix, t) : t \in 0..(TriangleCount(ix) - 1)}}

\* C1: every geometry a modifier returns has three position and three normal
\* components and two uv components per vertex of its vertexCount
C1_BufferLengths ==
  Returned =>
    /\ out.geometry.vertexCount * 3 = Len(out.geometry.vertices)
    /\ Len(out.geometry.normals) = Len(out.geometry.vertices)
    /\ out.geometry.vertexCount * 2 = Len(out.geometry.uvs)

\* a modifier returned a mesh with more vertices than it was given
C1_Witness ==
  /\ Worked
  /\ call.op \in {"solidify", "mirror", "knifeCut"}
  /\ out.geometry.vertexCount > given.mesh.vertexCount

\* C2: every index a modifier returns is less than the vertexCount it returns
C2_IndicesInRange ==
  Returned =>
    \A i \in 1..Len(out.geometry.indices) :
      out.geometry.indices[i] >= 0 /\ out.geometry.indices[i] < out.geometry.vertexCount

\* a modifier that renumbers vertices returned triangles
C2_Witness ==
  /\ Worked
  /\ call.op \in {"array", "decimate", "bridgeEdgeLoops", "loopCut"}
  /\ out.geometry.indices # given.mesh.indices
  /\ Len(out.geometry.indices) > 0

\* C3: the edge list of a geometry a modifier made holds each side of each of
\* its triangles once, as a < b, and nothing else
C3_EdgesCanonical ==
  Worked =>
    LET edges == out.geometry.edges
    IN /\ \A n \in 1..Len(edges) : edges[n].a < edges[n].b
       /\ \A n, k \in 1..Len(edges) : n # k => edges[n] # edges[k]
       /\ {<<edges[n].a, edges[n].b>> : n \in 1..Len(edges)} = Sides(out.geometry.indices)

\* C4: the face list of a geometry a modifier returned has one entry per
\* triangle, faces[i].vertices being the indices of triangle i
C4_FacesMatchTriangles ==
  Returned =>
    /\ Len(out.geometry.faces) = TriangleCount(out.geometry.indices)
    /\ \A t \in 1..Len(out.geometry.faces) :
         out.geometry.faces[t].vertices = Triangle(out.geometry.indices, t - 1)

\* C5: given triangles without a repeated index, a modifier returns none with one
C5_NoDegenerateTriangle ==
  (Returned /\ ~Degenerate(given.mesh)) => ~Degenerate(out.geometry)

\* the precondition of the call removes all work
NoWork ==
  \/ call.op \in {"extrude", "loopCut", "bevel"} /\ call.args[1] = <<>>
  \/ call.op = "array" /\ call.args[1] <= 1
  \/ call.op = "decimate" /\ call.args[1] >= RatioDen
  \/ call.op = "bridgeEdgeLoops" /\ (Len(call.args[1]) < 3 \/ Len(call.args[2]) < 3)
  \/ call.op = "knifeCut" /\ Len(call.args[1]) < 2

\* C6: a call whose precondition removes all work raises nothing and returns a
\* mesh equal in value to its input
C6_NoWorkReturnsInput ==
  NoWork => ~out.threw /\ out.geometry = given.mesh /\ out.transform = mesh.transform

\* a bridge of a loop of two vertices came back
C6_Witness == call.op = "bridgeEdgeLoops" /\ NoWork /\ Len(call.args[1]) = 2

Bound == engine.mesh # NoMesh
Positions == engine.mesh.geometry.vertices

\* C8: undoStroke puts every coordinate of the bound mesh back to its value at
\* the latest beginStroke or setMesh; beginStroke followed at once by undoStroke
\* leaves the positions as they were; a second undoStroke changes nothing
C8_UndoRestores ==
  /\ []((trace.op = "undoStroke" /\ Bound) => Positions = trace.marked)
  /\ [][(trace.op = "beginStroke" /\ trace'.op = "undoStroke" /\ Bound)
          => Positions' = Positions]_vars
  /\ [][(trace.op = "undoStroke" /\ trace'.op = "undoStroke") => engine' = engine]_vars

\* undoStroke took back the moves of a stroke that had ended
C8_Witness ==
  /\ trace.op = "undoStroke"
  /\ Bound
  /\ trace.stroke = "ended"
  /\ trace.was # Positions
  /\ Positions = trace.marked

\* C9: an updateStroke or endStroke called before the first beginStroke, or after
\* an endStroke and before the next beginStroke, changes nothing
C9_IdleStrokeIsNoOp ==
  [][(trace'.op \in {"updateStroke", "endStroke"} /\ trace.stroke # "begun")
       => engine' = engine]_vars

GrabLinear(settings, symmetry) ==
  /\ settings.type = "grab"
  /\ settings.falloff = "linear"
  /\ settings.strength = Frac(1, 1)
  /\ ~settings.invert
  /\ ~symmetry.x /\ ~symmetry.y /\ ~symmetry.z

\* C10: with the grab brush, linear falloff, strength 1, no invert and no
\* symmetry, an updateStroke of an active stroke moves each vertex at distance
\* d <= radius of hitPoint by (1 - d / radius) * delta and leaves the farther
\* vertices and the index buffer as they were
C10_GrabMovesByFalloff ==
  [][(/\ trace'.op = "updateStroke"
      /\ engine.brush.isActive
      /\ Bound
      /\ GrabLinear(engine.brush.settings, engine.symmetry))
     => LET hitPoint == trace'.args[1]
            delta == trace'.args[2]
            radius == engine.brush.settings.radius
            moved(i) ==
              LET v == Vec(Positions, i)
                  distSq == vec3DistSq(v, hitPoint)
              IN IF distSq <= radius * radius
                 THEN vec3Add(v, vec3Scale(delta, radius - Sqrt(distSq), radius))
                 ELSE v
        IN /\ Len(Positions') = Len(Positions)
           /\ \A i \in 0..((Len(Positions) \div 3) - 1) : Vec(Positions', i) = moved(i)
           /\ engine'.mesh.geometry.indices = engine.mesh.geometry.indices]_vars

\* such an updateStroke moved one vertex by all of delta, one by a part of it,
\* and left one where it was
C10_Witness ==
  /\ trace.op = "updateStroke"
  /\ engine.brush.isActive
  /\ Bound
  /\ GrabLinear(engine.brush.settings, engine.symmetry)
  /\ trace.moves = 1
  /\ LET delta == trace.args[2]
         step(i) == vec3Sub(Vec(Positions, i), Vec(trace.was, i))
         all == 0..((Len(Positions) \div 3) - 1)
     IN /\ \E i \in all : step(i) = delta
        /\ \E i \in all : step(i) # delta /\ step(i) # <<0, 0, 0>>
        /\ \E i \in all : step(i) = <<0, 0, 0>>

\* C11: an updateStroke of an active stroke (grab brush, linear falloff,
\* strength 1, no invert, no symmetry) moves the vertices whose position in the
\* world, the stored position taken through the transform of the bound mesh,
\* lies within radius of hitPoint, and no others
C11_AffectsWorldNeighbours ==
  [][(/\ trace'.op = "updateStroke"
      /\ engine.brush.isActive
      /\ Bound
      /\ GrabLinear(engine.brush.settings, engine.symmetry))
     => LET hitPoint == trace'.args[1]
            delta == trace'.args[2]
            radius == engine.brush.settings.radius
            moved(i) ==
              LET v == Vec(Positions, i)
                  distSq == vec3DistSq(applyTransform(engine.mesh.transform, v), hitPoint)
              IN IF distSq <= radius * radius
                 THEN vec3Add(v, vec3Scale(delta, radius - Sqrt(distSq), radius))
                 ELSE v
        IN \A i \in 0..((Len(Positions) \div 3) - 1) : Vec(Positions', i) = moved(i)]_vars

\* four to the power n
Pow4(n) == IF n <= 0 THEN 1 ELSE IF n = 1 THEN 4 ELSE IF n = 2 THEN 16 ELSE 64

\* C12: subdivide with iterations = 0 returns a mesh equal to its input, and
\* n iterations return 4^n times the triangles of the input, smooth or not
C12_SubdivideQuadruples ==
  (call.op = "subdivide" /\ Returned) =>
    /\ call.args[1] = 0 => (out.geometry = given.mesh /\ out.transform = mesh.transform)
    /\ TriangleCount(out.geometry.indices)
         = Pow4(call.args[1]) * TriangleCount(given.mesh.indices)

\* two iterations of the smoothing subdivide returned sixteen times the triangles
C12_Witness ==
  /\ call.op = "subdivide"
  /\ Returned
  /\ call.args = <<2, TRUE>>
  /\ TriangleCount(out.geometry.indices) = 16 * TriangleCount(given.mesh.indices)
  /\ TriangleCount(given.mesh.indices) > 0

\* the points of a vertex buffer
PointsOf(buf) == {Vec(buf, i) : i \in 0..((Len(buf) \div 3) - 1)}
\* the two buffers hold the same points the same number of times
SamePoints(a, b) ==
  \A p \in PointsOf(a) \cup PointsOf(b) :
    Cardinality({i \in 0..((Len(a) \div 3) - 1) : Vec(a, i) = p})
      = Cardinality({i \in 0..((Len(b) \div 3) - 1) : Vec(b, i) = p})

\* the mirror of what the last call returned, with the options of that call
MirroredAgain ==
  mirror([mesh EXCEPT !.geometry = out.geometry], call.args[1], call.args[2], 1,
         call.args[3]).geometry

\* C13: the mirror of a mirror across the same axis has as many vertices and
\* triangles as the mesh first given, the same positions in some order, and
\* without merge the same triangles
C13_MirrorTwiceCongruent ==
  (call.op = "mirror" /\ Returned) =>
    /\ MirroredAgain.vertexCount = given.mesh.vertexCount
    /\ TriangleCount(MirroredAgain.indices) = TriangleCount(given.mesh.indices)
    /\ SamePoints(MirroredAgain.vertices, given.mesh.vertices)
    /\ ~call.args[2] => MirroredAgain.indices = given.mesh.indices

\* C14: a loopCut of a selection of edges with numberOfCuts = 0 returns the
\* vertices and the triangles it was given
C14_ZeroCutsNoOp ==
  (call.op = "loopCut" /\ Returned /\ Len(call.args[1]) > 0 /\ call.args[2] = 0) =>
    /\ out.geometry.vertices = given.mesh.vertices
    /\ out.geometry.indices = given.mesh.indices

\* the number of sides of the triangle that are in the selection
CutCount(tri, selectedEdges) ==
  Cardinality({j \in 1..3 :
                 EdgeKey(tri[j], tri[(j % 3) + 1])
                   \in {EdgeKey(e[1], e[2]) : e \in Range(selectedEdges)}})
\* the number of triangles a triangle with n sides cut k times is to become
Pieces(n, k) == IF n = 1 THEN k + 1 ELSE IF n = 2 THEN 2 * k + 1 ELSE 1

\* C15: a loopCut with k >= 1 cuts returns, in the place of each triangle, as
\* many triangles as the number n of its selected sides asks for: the triangle
\* itself for n = 0 and n = 3, k + 1 triangles that all hold the vertex
\* opposite the cut side for n = 1, and 2k + 1 triangles, the first at the
\* vertex the two cut sides share, for n = 2
C15_TrianglesByCutSides ==
  (call.op = "loopCut" /\ Returned /\ Len(call.args[1]) > 0 /\ call.args[2] >= 1) =>
    LET k == call.args[2]
        In(t) == Triangle(given.mesh.indices, t)
        N(t) == CutCount(In(t), call.args[1])
        Off(t) == SumTo(LAMBDA u : Pieces(N(u), k), 0, t - 1)
        Selected(a, b) == EdgeKey(a, b) \in {EdgeKey(e[1], e[2]) : e \in Range(call.args[1])}
        \* the vertex opposite the one cut side, the vertex shared by two
        Opposite(tri) == CHOOSE v \in Range(tri) :
                           \E j \in 1..3 : /\ tri[j] # v /\ tri[(j % 3) + 1] # v
                                           /\ Selected(tri[j], tri[(j % 3) + 1])
        Shared(tri) == CHOOSE v \in Range(tri) :
                         \A j \in 1..3 :
                           (tri[j] # v /\ tri[(j % 3) + 1] # v)
                             => ~Selected(tri[j], tri[(j % 3) + 1])
    IN /\ TriangleCount(out.geometry.indices)
            = Off(TriangleCount(given.mesh.indices))
       /\ \A t \in 0..(TriangleCount(given.mesh.indices) - 1) :
            /\ N(t) \in {0, 3} => Triangle(out.geometry.indices, Off(t)) = In(t)
            /\ N(t) = 1 => \A p \in 0..k :
                             Triangle(out.geometry.indices, Off(t) + p)[1] = Opposite(In(t))
            /\ N(t) = 2 => Triangle(out.geometry.indices, Off(t))[1] = Shared(In(t))

\* a loopCut of k = 2 cuts met a triangle with one, one with two and one with
\* three of its sides selected
C15_Witness ==
  /\ call.op = "loopCut"
  /\ Returned
  /\ call.args[2] = 2
  /\ \E t \in 0..(TriangleCount(given.mesh.indices) - 1) :
       CutCount(Triangle(given.mesh.indices, t), call.args[1]) = 3
  /\ \E t \in 0..(TriangleCount(given.mesh.indices) - 1) :
       CutCount(Triangle(given.mesh.indices, t), call.args[1]) = 1
  /\ \E t \in 0..(TriangleCount(given.mesh.indices) - 1) :
       CutCount(Triangle(given.mesh.indices, t), call.args[1]) = 0

\* C16: decimate in collapse mode with ratio 0 of a mesh of at least four
\* triangles returns exactly four triangles
C16_RatioZeroLeavesFour ==
  (/\ call.op = "decimate"
   /\ Returned
   /\ call.args[1] = 0
   /\ call.args[2] = "collapse"
   /\ TriangleCount(given.mesh.indices) >= 4)
  => TriangleCount(out.geometry.indices) = 4

\* every side of a triangle of g is a side of exactly two of them, and no
\* vertex of g lies in front of the plane of one of its triangles
ClosedConvex(g) ==
  LET all == 0..(TriangleCount(g.indices) - 1)
      Has(t, side) == side \in Sides(Triangle(g.indices, t))
      Normal(t) == LET tri == Triangle(g.indices, t)
                   IN vec3Cross(vec3Sub(Vec(g.vertices, tri[2]), Vec(g.vertices, tri[1])),
                                vec3Sub(Vec(g.vertices, tri[3]), Vec(g.vertices, tri[1])))
  IN /\ all # {}
     /\ \A side \in Sides(g.indices) : Cardinality({t \in all : Has(t, side)}) = 2
     /\ \A t \in all, i \in 0..(g.vertexCount - 1) :
          vec3Dot(Normal(t), vec3Sub(Vec(g.vertices, i),
                                     Vec(g.vertices, Triangle(g.indices, t)[1]))) <= 0

\* C17: the boolean difference of a closed convex mesh and a target of the
\* same geometry and transform has no triangle and no vertex
C17_SelfDifferenceEmpty ==
  (/\ call.op = "boolean"
   /\ Returned
   /\ call.args[1] = "difference"
   /\ given.target = given.mesh
   /\ target.transform = mesh.transform
   /\ ClosedConvex(given.mesh))
  => /\ TriangleCount(out.geometry.indices) = 0
     /\ out.geometry.vertexCount = 0
     /\ out.geometry.vertices = <<>>

\* the difference of the bipyramid and itself was taken
C17_Witness ==
  /\ call.op = "boolean"
  /\ Returned
  /\ call.args[1] = "difference"
  /\ given.target = given.mesh
  /\ target.transform = mesh.transform
  /\ ClosedConvex(given.mesh)
  /\ given.mesh.vertexCount = 5
  /\ out.geometry.indices = <<>>

\* twice the summed area of the triangles of g
DoubleArea(g) ==
  SumTo(LAMBDA t :
          LET tri == Triangle(g.indices, t)
              n == vec3Cross(vec3Sub(Vec(g.vertices, tri[2]), Vec(g.vertices, tri[1])),
                             vec3Sub(Vec(g.vertices, tri[3]), Vec(g.vertices, tri[1])))
          IN Sqrt(vec3Dot(n, n)),
        0, TriangleCount(g.indices) - 1)

\* the point p lies on the segment from a to b
OnSegment(p, a, b) ==
  /\ vec3Cross(vec3Sub(p, a), vec3Sub(b, a)) = <<0, 0, 0>>
  /\ vec3Dot(vec3Sub(p, a), vec3Sub(b, a)) >= 0
  /\ vec3Dot(vec3Sub(p, b), vec3Sub(a, b)) >= 0

\* C18: the through cut of the two-triangle quad in the plane y = 0 along the
\* path from the middle of one side to the middle of the opposite side returns
\* at least four triangles, at least two new vertices on the diagonal, and the
\* area it was given
C18_KnifeCutsQuad ==
  (/\ call.op = "knifeCut"
   /\ call.args = <<InPlanePath, TRUE>>
   /\ given.mesh = createPlane(1, 1).geometry)
  => /\ ~out.threw
     /\ TriangleCount(out.geometry.indices) >= 4
     /\ Cardinality({i \in given.mesh.vertexCount..(out.geometry.vertexCount - 1) :
                       OnSegment(Vec(out.geometry.vertices, i),
                                 Vec(given.mesh.vertices, 1),
                                 Vec(given.mesh.vertices, 2))}) >= 2
     /\ DoubleArea(out.geometry) = DoubleArea(given.mesh)

\* the triangles of the visible meshes of the scene that the ray of the call
\* meets, as pairs of the place of the mesh in the scene and the triangle
VisibleHits ==
  {kt \in UNION {{<<k, t>> : t \in 0..(TriangleCount(given.meshes[k].geometry.indices) - 1)} :
                   k \in 1..Len(given.meshes)} :
     /\ given.meshes[kt[1]].visible
     /\ TriangleHit(call.args[1], given.meshes[kt[1]], kt[2]).hit}

\* C19: raycast returns null when the ray meets no triangle of a visible mesh,
\* and otherwise a hit on a visible mesh whose distance is positive and the
\* least of all triangles of all visible meshes, with the index of a triangle
\* at that distance as faceIndex
C19_RaycastNearestVisible ==
  call.op = "raycast" =>
    LET Distance(kt) == TriangleHit(call.args[1], given.meshes[kt[1]], kt[2]).distance
    IN /\ (out = NoRaycastHit) <=> (VisibleHits = {})
       /\ out # NoRaycastHit =>
            /\ out.distance.num > 0 /\ out.distance.den > 0
            /\ \E kt \in VisibleHits :
                 /\ given.meshes[kt[1]].id = out.meshId
                 /\ kt[2] = out.faceIndex
                 /\ Distance(kt) = out.distance
            /\ \A kt \in VisibleHits : ~FracLess(Distance(kt), out.distance)
            /\ \A k \in 1..Len(given.meshes) :
                 given.meshes[k].id = out.meshId => given.meshes[k].visible

\* a ray that meets a hidden mesh first and two visible meshes behind it
\* returned the nearer of the two
C19_Witness ==
  /\ call.op = "raycast"
  /\ out # NoRaycastHit
  /\ \E k \in 1..Len(given.meshes) :
       /\ ~given.meshes[k].visible
       /\ \E t \in 0..(TriangleCount(given.meshes[k].geometry.indices) - 1) :
            LET result == TriangleHit(call.args[1], given.meshes[k], t)
            IN result.hit /\ FracLess(result.distance, out.distance)
  /\ Cardinality({kt[1] : kt \in VisibleHits}) = 2

\* C20: the geometry a modifier returns carries the id of the geometry it
\* was given
C20_GeometryIdKept ==
  Returned => out.geometry.id = given.mesh.id

\* the cuts knifeCut records for triangle t of the mesh it was given
CutsOf(t) == TriangleCuts(given.mesh, call.args[1], call.args[2], t)
\* triangle t has two cuts, on two different edges
TwoEdgesCut(t) == Len(CutsOf(t)) = 2 /\ CutsOf(t)[1].edge # CutsOf(t)[2].edge
\* the number of triangles that take the place of triangle t
KnifePieces(t) ==
  IF Len(CutsOf(t)) = 1 THEN 2 ELSE IF TwoEdgesCut(t) THEN 3 ELSE 1

\* C21: a triangle for which knifeCut recorded two cuts on two different edges
\* is replaced by three triangles without a repeated index, one of them made
\* of the vertex the two edges share and the two new vertices, which together
\* hold the three vertices of the triangle and the two new ones
C21_TwoCutsThreeTriangles ==
  (call.op = "knifeCut" /\ Returned /\ Len(call.args[1]) >= 2) =>
    LET count == TriangleCount(given.mesh.indices)
        Off(t) == SumTo(LAMBDA o : KnifePieces(o), 0, t - 1)
        Piece(t, j) == Triangle(out.geometry.indices, Off(t) + j)
        EdgeVerts(t, e) == {Triangle(given.mesh.indices, t)[e + 1],
                            Triangle(given.mesh.indices, t)[((e + 1) % 3) + 1]}
        Shared(t) == CHOOSE v \in EdgeVerts(t, CutsOf(t)[1].edge) :
                       v \in EdgeVerts(t, CutsOf(t)[2].edge)
        fresh == given.mesh.vertexCount..(out.geometry.vertexCount - 1)
    IN /\ TriangleCount(out.geometry.indices) = Off(count)
       /\ \A t \in 0..(count - 1) :
            TwoEdgesCut(t) =>
              /\ \A j \in 0..2 : ~HasRepeatedIndex(Piece(t, j))
              /\ \E n0, n1 \in fresh :
                   /\ n0 # n1
                   /\ \E j \in 0..2 : Range(Piece(t, j)) = {Shared(t), n0, n1}
                   /\ UNION {Range(Piece(t, j)) : j \in 0..2}
                        = Range(Triangle(given.mesh.indices, t)) \cup {n0, n1}

\* a cut path of two segments left two cuts on two edges of a triangle
C21_Witness ==
  /\ call.op = "knifeCut"
  /\ Returned
  /\ Len(call.args[1]) = 3
  /\ \E t \in 0..(TriangleCount(given.mesh.indices) - 1) : TwoEdgesCut(t)

\* what segment segIdx of the cut path of the call meets in triangle t of the
\* mesh given
SegmentHit(t, segIdx) ==
  LET tri == Triangle(given.mesh.indices, t)
      seg == KnifeSegment(call.args[1], call.args[2], segIdx)
  IN segmentTriangleIntersect(seg[1], seg[2], Vec(given.mesh.vertices, tri[1]),
                              Vec(given.mesh.vertices, tri[2]),
                              Vec(given.mesh.vertices, tri[3]))

\* C22: for a hit of a knife segment in a triangle with no barycentric
\* coordinate above 0.95, the edge recorded for splitting is the edge opposite
\* the vertex with the smallest barycentric coordinate
C22_SplitsEdgeOppositeSmallest ==
  (call.op = "knifeCut" /\ Returned /\ Len(call.args[1]) >= 2) =>
    \A t \in 0..(TriangleCount(given.mesh.indices) - 1),
       segIdx \in 0..(Len(call.args[1]) - 2) :
      LET result == SegmentHit(t, segIdx)
          cut == EdgeToSplit(result)
          opposite == ((cut[1].edge + 2) % 3) + 1
      IN (result.hit /\ \A c \in 1..3 : 20 * result.bary[c] <= 19 * result.den) =>
           /\ Len(cut) = 1
           /\ \A c \in 1..3 : result.bary[opposite] <= result.bary[c]

\* C23: whichever way round the ends of a selected edge are given, in a
\* triangle with that one side cut k >= 2 times the fan [a, c1, ..., ck, b]
\* visits the cut vertices in the order of growing distance from a, the first
\* end of the side in the triangle
C23_FanOrderedFromFirstEnd ==
  (call.op = "loopCut" /\ Returned /\ Len(call.args[1]) > 0 /\ call.args[2] >= 2) =>
    LET k == call.args[2]
        N(t) == CutCount(Triangle(given.mesh.indices, t), call.args[1])
        Off(t) == SumTo(LAMBDA u : Pieces(N(u), k), 0, t - 1)
        Piece(t, j) == Triangle(out.geometry.indices, Off(t) + j)
        \* the fan of triangle t: a, c1, ..., ck, b
        FanOf(t) == <<Piece(t, 0)[2]>> \o [i \in 1..(k + 1) |-> Piece(t, i - 1)[3]]
        Far(t, i) == vec3DistSq(Vec(out.geometry.vertices, FanOf(t)[i]),
                                Vec(out.geometry.vertices, FanOf(t)[1]))
    IN \A t \in 0..(TriangleCount(given.mesh.indices) - 1) :
         N(t) = 1 => \A i \in 1..(k + 1) : Far(t, i) < Far(t, i + 1)

\* C24: a bridge of two loops of three or more vertices raises nothing,
\* whatever the twist, the number of segments and the sizes of the loops, and
\* every triangle it adds is made of vertices of loop1, of loop2 or of the
\* loops it inserted between them
C24_BridgeAlwaysCompletes ==
  (call.op = "bridgeEdgeLoops" /\ Len(call.args[1]) >= 3 /\ Len(call.args[2]) >= 3) =>
    /\ ~out.threw
    /\ \A n \in (Len(given.mesh.indices) + 1)..Len(out.geometry.indices) :
         \/ out.geometry.indices[n] \in Range(call.args[1]) \cup Range(call.args[2])
         \/ /\ out.geometry.indices[n] >= given.mesh.vertexCount
            /\ out.geometry.indices[n] < out.geometry.vertexCount

\* the selection names faces that exist, each of them once
ValidSelection(g, selectedFaces) ==
  /\ Len(selectedFaces) > 0
  /\ \A n \in 1..Len(selectedFaces) :
       /\ selectedFaces[n] >= 0
       /\ selectedFaces[n] < Len(g.faces)
       /\ \A j \in 1..(n - 1) : selectedFaces[j] # selectedFaces[n]

\* the sides (a, b) of the selected faces, in the order of the selection, that
\* no other selected face has in either direction
SelectionBoundary(g, selectedFaces) ==
  LET Side(f, i) == <<g.faces[f + 1].vertices[i],
                      g.faces[f + 1].vertices[(i % Len(g.faces[f + 1].vertices)) + 1]>>
      SidesOfFace(f) == {Side(f, i) : i \in 1..Len(g.faces[f + 1].vertices)}
      Lone(f, i) == \A n \in 1..Len(selectedFaces) :
                      selectedFaces[n] = f
                      \/ /\ Side(f, i) \notin SidesOfFace(selectedFaces[n])
                         /\ <<Side(f, i)[2], Side(f, i)[1]>> \notin SidesOfFace(selectedFaces[n])
  IN Flat(LAMBDA n :
            Flat(LAMBDA i : IF Lone(selectedFaces[n], i) THEN <<Side(selectedFaces[n], i)>>
                            ELSE <<>>,
                 1, Len(g.faces[selectedFaces[n] + 1].vertices)),
          1, Len(selectedFaces))

\* C25: extrude of a non-empty selection of existing faces adds one clone per
\* distinct vertex of the selected faces and leaves the first N positions as
\* they were, moves the triangles of the selected faces onto the clones and no
\* other, and appends for each boundary side (a, b) of the selection exactly
\* the triangles (a, b, b') and (a, b', a')
C25_ExtrudeClonesAndSides ==
  (call.op = "extrude" /\ ValidSelection(given.mesh, call.args[1])) =>
    LET g == given.mesh
        sel == call.args[1]
        N == g.vertexCount
        chosen == Dedup(Flat(LAMBDA n : g.faces[sel[n] + 1].vertices, 1, Len(sel)))
        Clone(v) == N + IndexOf(chosen, v) - 1
        boundary == SelectionBoundary(g, sel)
        T == TriangleCount(g.indices)
    IN /\ Returned
       /\ out.geometry.vertexCount = N + Len(chosen)
       /\ Len(out.geometry.vertices) = 3 * (N + Len(chosen))
       /\ \A i \in 1..(3 * N) : out.geometry.vertices[i] = g.vertices[i]
       /\ TriangleCount(out.geometry.indices) = T + 2 * Len(boundary)
       /\ Len(out.geometry.indices) = 3 * (T + 2 * Len(boundary))
       /\ \A t \in 0..(T - 1) :
            Triangle(out.geometry.indices, t) =
              IF \E n \in 1..Len(sel) :
                   Range(g.faces[sel[n] + 1].vertices) = Range(Triangle(g.indices, t))
              THEN [k \in 1..3 |-> Clone(Triangle(g.indices, t)[k])]
              ELSE Triangle(g.indices, t)
       /\ \A n \in 1..Len(boundary) :
            /\ Triangle(out.geometry.indices, T + 2 * (n - 1)) =
                 <<boundary[n][1], boundary[n][2], Clone(boundary[n][2])>>
            /\ Triangle(out.geometry.indices, T + 2 * (n - 1) + 1) =
                 <<boundary[n][1], Clone(boundary[n][2]), Clone(boundary[n][1])>>

\* two faces that share a side were extruded together
C25_Witness ==
  /\ call.op = "extrude"
  /\ ValidSelection(given.mesh, call.args[1])
  /\ Returned
  /\ Len(call.args[1]) = 2
  /\ Len(SelectionBoundary(given.mesh, call.args[1])) = 4
  /\ TriangleCount(out.geometry.indices) = TriangleCount(given.mesh.indices) + 8

\* the vertices a triangle of the working list names
NamedByFaces(faces) == UNION {Range(faces[k]) : k \in 1..Len(faces)}

\* C26: decimateCollapse comes to its end; each turn of its loop marks one
\* vertex that was not yet marked as removed; the loop is left only with the
\* triangle count at or under max(4, floor(T * ratio)) or with no edge whose
\* two ends survive; after it no surviving triangle names a removed vertex and
\* every vertex of the result is named by a triangle of the result
C26_CollapseTerminatesClean ==
  /\ [][(out.pc = "loop" /\ out'.pc = "loop") =>
          /\ out.removed \subseteq out'.removed
          /\ Cardinality(out'.removed) = Cardinality(out.removed) + 1]_vars
  /\ [][(out.pc = "loop" /\ out'.pc # "loop") =>
          \/ Len(out.faces) <= Max(4, (TriangleCount(given.mesh.indices) * given.ratioNum)
                                        \div RatioDen)
          \/ \A k \in 1..Len(out.edges) :
               out.edges[k][1] \in out.removed \/ out.edges[k][2] \in out.removed]_vars
  /\ [](out.pc = "done" =>
          /\ NamedByFaces(out.faces) \cap out.removed = {}
          /\ \A v \in 0..(out.result.geometry.vertexCount - 1) :
               \E n \in 1..Len(out.result.geometry.indices) :
                 out.result.geometry.indices[n] = v)
  /\ (out.pc = "loop") ~> (out.pc = "rebuild")

\* a and b are the two ends of a selected edge
Joined(selectedEdges, a, b) ==
  \E n \in 1..Len(selectedEdges) :
    selectedEdges[n] = <<a, b>> \/ selectedEdges[n] = <<b, a>>

\* the sides of a vertex list taken as a closed loop, as unordered pairs
LoopSides(loop) ==
  {<<Min(loop[i], loop[(i % Len(loop)) + 1]), Max(loop[i], loop[(i % Len(loop)) + 1])>> :
     i \in 1..Len(loop)}

\* C27: every vertex list detectEdgeLoops returns is a closed loop of at least
\* three vertices: each vertex and the one after it, and the last and the
\* first, are the ends of a selected edge, and no selected edge is a side of
\* two returned loops
C27_LoopsAreClosed ==
  call.op = "detectEdgeLoops" =>
    /\ \A n \in 1..Len(out.loops) :
         /\ Len(out.loops[n]) >= 3
         /\ \A i \in 1..Len(out.loops[n]) :
              Joined(given.selectedEdges, out.loops[n][i],
                     out.loops[n][(i % Len(out.loops[n])) + 1])
    /\ \A n, m \in 1..Len(out.loops) :
         n # m => LoopSides(out.loops[n]) \cap LoopSides(out.loops[m]) = {}

\* the cross product of the sides of the triangle tri of geometry g: twice its
\* area along its normal
AreaNormal(g, tri) ==
  vec3Cross(vec3Sub(Vec(g.vertices, tri[2]), Vec(g.vertices, tri[1])),
            vec3Sub(Vec(g.vertices, tri[3]), Vec(g.vertices, tri[1])))

\* C28: loopCut keeps the winding: every triangle it puts in the place of a
\* triangle with one or two cut sides faces the way that triangle faced (its
\* normal has a positive component along the normal of the triangle it
\* replaces), whichever sides are the cut ones
C28_LoopCutKeepsWinding ==
  (call.op = "loopCut" /\ Returned /\ Len(call.args[1]) > 0 /\ call.args[2] >= 1) =>
    LET k == call.args[2]
        N(t) == CutCount(Triangle(given.mesh.indices, t), call.args[1])
        Off(t) == SumTo(LAMBDA u : Pieces(N(u), k), 0, t - 1)
    IN \A t \in 0..(TriangleCount(given.mesh.indices) - 1) :
         N(t) \in {1, 2} =>
           \A j \in 0..(Pieces(N(t), k) - 1) :
             vec3Dot(AreaNormal(out.geometry, Triangle(out.geometry.indices, Off(t) + j)),
                     AreaNormal(given.mesh, Triangle(given.mesh.indices, t))) > 0

\* the members of a face selection that name a face of g
FacesThatExist(g, selectedFaces) ==
  Flat(LAMBDA n : IF selectedFaces[n] >= 0 /\ selectedFaces[n] < Len(g.faces)
                  THEN <<selectedFaces[n]>> ELSE <<>>,
       1, Len(selectedFaces))

\* C29: extrude of a selection that holds an index with no face record passes
\* over that index: it raises no error and returns what it returns for the
\* selection without that index
C29_ExtrudeSkipsMissingFace ==
  (/\ call.op = "extrude"
   /\ FacesThatExist(given.mesh, call.args[1]) # call.args[1]) =>
    /\ ~out.threw
    /\ out.geometry =
         extrude(mesh, FacesThatExist(given.mesh, call.args[1]),
                 call.args[2], call.args[3]).geometry

\* the positions of buf taken in pairs (i, j) that are mirror images about x = 0
MirrorPairs(buf) ==
  {<<i, j>> \in (0..((Len(buf) \div 3) - 1)) \X (0..((Len(buf) \div 3) - 1)) :
     Vec(buf, i) = FlipAxis(Vec(buf, j), 1)}

\* every vertex of buf has a mirror partner about x = 0
MirrorSymmetric(buf) ==
  \A i \in 0..((Len(buf) \div 3) - 1) : \E j \in 0..((Len(buf) \div 3) - 1) :
    <<i, j>> \in MirrorPairs(buf)

\* C30: with symmetry on for x only and a bound mesh whose vertices are mirror
\* symmetric about x = 0, an updateStroke of an active grab stroke leaves them
\* mirror symmetric: vertices that were mirror images of each other still are,
\* and a vertex on the plane stays on it
C30_GrabKeepsMirrorSymmetry ==
  [][(/\ trace'.op = "updateStroke"
      /\ engine.brush.isActive
      /\ Bound
      /\ engine.brush.settings.type = "grab"
      /\ engine.symmetry = [x |-> TRUE, y |-> FALSE, z |-> FALSE]
      /\ MirrorSymmetric(Positions))
     => \A pair \in MirrorPairs(Positions) :
          Vec(Positions', pair[1]) = FlipAxis(Vec(Positions', pair[2]), 1)]_vars

====
